---- MODULE Spec2Model ----
(***************************************************************************)
(* A model of ecmwf-lab/ai-models: the remote job client                   *)
(* (src/src/ai_models/remote/api.py, remote/model.py), the archive         *)
(* bookkeeping, the date-times and the retrieve requests of Model          *)
(* (src/src/ai_models/model.py), and the field wrappers and conversions    *)
(* of the inputs (src/src/ai_models/inputs/).                              *)
(*                                                                         *)
(* Python dicts are TLA+ functions whose DOMAIN is the set of keys that    *)
(* are present; d.get(k) is Get(d, k, default).  None is the absence of a  *)
(* value: an option is the empty set or a singleton.                       *)
(***************************************************************************)
EXTENDS Integers, Sequences, FiniteSets, TLC

VARIABLES run, twin, model, fields, input, output

vars == <<run, twin, model, fields, input, output>>

(* ------------------------------------------------------------------ *)
(* Bounds of the model                                                 *)
(* ------------------------------------------------------------------ *)

\* polls of one run that the model follows (the code's loop has no limit)
MaxPolls == 3

\* the same for two runs side by side
MaxTwinPolls == 2

\* fields written by one run of a model
MaxWrites == 3

\* fields that an input source loads
MaxFields == 2

\* wrappers made over the loaded fields
MaxWraps == 2

(* ------------------------------------------------------------------ *)
(* Python dicts and options                                            *)
(* ------------------------------------------------------------------ *)

EmptyDict == <<>>

Opt(S) == {{}} \cup {{x} : x \in S}

\* The dict {k: v} when the option o holds v, the empty dict when it is None.
Part(k, o) == [kk \in {k : x \in o} |-> CHOOSE x \in o : TRUE]

HasKey(d, k) == k \in DOMAIN d

Get(d, k, default) == IF k \in DOMAIN d THEN d[k] ELSE default

\* dict.update: the keys of e win
Update(d, e) == e @@ d

(* ------------------------------------------------------------------ *)
(* URLs                                                                *)
(* ------------------------------------------------------------------ *)

\* remote/config.py: the default server, which RemoteAPI.__init__ keeps
\* (it already ends with "/")
API_URL == "https://ai-models.ecmwf.int/api/v1/"

\* An href is relative (origin "") or absolute.
RelHref(path) == [origin |-> "", path |-> path]

AbsHref(origin, path) == [origin |-> origin, path |-> path]

Hrefs == {RelHref("status/a"), AbsHref("https://store.example/", "result/b")}

\* urllib.parse.urljoin(base, href) for a base that ends with "/": an
\* absolute href replaces the base, a relative one is appended to it.
urljoin(base, href) ==
    IF href.origin # ""
    THEN [origin |-> href.origin, path |-> href.path]
    ELSE [origin |-> base, path |-> href.path]

(* ------------------------------------------------------------------ *)
(* HTTP responses                                                      *)
(* ------------------------------------------------------------------ *)

\* status strings as the server spells them
RawStatuses == {"success", "queued", "running", "ready", "failed", "READY", "Failed"}

\* str.lower on the spellings above
Lower(s) == IF s = "READY" THEN "ready" ELSE IF s = "Failed" THEN "failed" ELSE s

Reasons == {"out of memory"}

ProgressBlocks ==
    { [total |-> 10, step |-> 3, eta |-> "5s", status |-> " running "],
      [step |-> 7] }

\* The JSON objects of the protocol: {status, href, id?, progress?, reason?},
\* any key possibly missing.  ok: the statuses sent without a reason.
JsonDicts(statuses, ok, ids, progress) ==
    UNION { { Part("status", s) @@ Part("href", h) @@ Part("id", i)
                 @@ Part("progress", p) @@ Part("reason", r) :
              h \in Opt(Hrefs), i \in ids, p \in progress,
              r \in IF s \subseteq ok THEN {{}} ELSE Opt(Reasons) } :
            s \in Opt(statuses) }

\* A response: its HTTP status code and its body, which is a JSON object
\* (kind "dict"), a JSON array (kind "list") or not JSON at all (kind "text").
DictResponse(code, d) ==
    [status_code |-> code, kind |-> "dict", dict |-> d, list |-> <<>>, text |-> ""]

ListResponse(code, l) ==
    [status_code |-> code, kind |-> "list", dict |-> EmptyDict, list |-> l, text |-> ""]

TextResponse(code, t) ==
    [status_code |-> code, kind |-> "text", dict |-> EmptyDict, list |-> <<>>, text |-> t]

Unauthorized == TextResponse(401, "Unauthorized")

\* What the server may answer, given the JSON objects of the request's kind
ResponsesOf(dicts) ==
    {Unauthorized}
      \cup { DictResponse(c, d) : c \in {200, 500}, d \in dicts }
      \cup { TextResponse(c, "Bad Gateway") : c \in {200, 500} }
      \cup { ListResponse(200, <<>>) }

UploadResponses == ResponsesOf(JsonDicts(RawStatuses, {"success"}, {{}}, {{}}))

SubmitResponses == ResponsesOf(JsonDicts(RawStatuses, {"queued"}, Opt({"job-1"}), {{}}))

PollStatuses == RawStatuses \ {"success"}

PollResponses ==
    ResponsesOf(JsonDicts(PollStatuses, PollStatuses \ {"failed", "Failed"}, {{}},
                          Opt(ProgressBlocks)))

(* ------------------------------------------------------------------ *)
(* RemoteAPI._request                                                  *)
(* ------------------------------------------------------------------ *)

\* f"{response.url} {response.status_code} {response.text}"
StatusLine(url, code, text) == ToString(<<url.origin, url.path, code, text>>)

\* _request without its 401 branch: the 401 body is decoded like any other
RequestReturns401(url, response) ==
    IF response.kind = "dict"
    THEN [exit |-> FALSE, kind |-> "dict", list |-> <<>>,
          dict |-> IF HasKey(response.dict, "status") /\ response.dict["status"] # ""
                   THEN [response.dict EXCEPT !["status"] = Lower(@)]
                   ELSE response.dict]
    ELSE IF response.kind = "list"
    THEN [exit |-> FALSE, kind |-> "list", list |-> response.list, dict |-> EmptyDict]
    ELSE [exit |-> FALSE, kind |-> "dict", list |-> <<>>,
          dict |-> [status |-> StatusLine(url, response.status_code, response.text)]]

\* RemoteAPI._request once the transport has returned `response` for `url`:
\* exit on 401, else the decoded JSON with its status lower-cased, else
\* (the body is not JSON) a dict holding only a status line.
request(url, response) ==
    IF response.status_code = 401
    THEN [exit |-> TRUE, kind |-> "dict", list |-> <<>>, dict |-> EmptyDict]
    ELSE IF response.kind = "dict"
    THEN [exit |-> FALSE, kind |-> "dict", list |-> <<>>,
          dict |-> IF HasKey(response.dict, "status") /\ response.dict["status"] # ""
                   THEN [response.dict EXCEPT !["status"] = Lower(@)]
                   ELSE response.dict]
    ELSE IF response.kind = "list"
    THEN [exit |-> FALSE, kind |-> "list", list |-> response.list, dict |-> EmptyDict]
    ELSE [exit |-> FALSE, kind |-> "dict", list |-> <<>>,
          dict |-> [status |-> StatusLine(url, response.status_code, response.text)]]

(* ------------------------------------------------------------------ *)
(* The state of one remote run                                         *)
(* ------------------------------------------------------------------ *)

\* cfg["model"] of RemoteModel
ModelName == "panguweather"

Info(msg, arg) == [level |-> "info", msg |-> msg, arg |-> arg]

Error(msg, arg) == [level |-> "error", msg |-> msg, arg |-> arg]

Debug(msg, arg) == [level |-> "debug", msg |-> msg, arg |-> arg]

\* RemoteAPI() has been constructed and one of its methods is about to be
\* called.  pc: the place of the call; result: what metadata, models or
\* patch_retrieve_request returned; data, last_status, pbar: the locals
\* of run; reqs, downloads, log, sleeps: what the call did so far;
\* response: the last HTTP response received (status_code 0: none yet).
NewRun(pc) ==
    [ pc |-> pc,
      url |-> API_URL,
      output_file |-> "output.grib",
      result |-> [exit |-> FALSE, kind |-> "dict", list |-> <<>>, dict |-> EmptyDict],
      response |-> TextResponse(0, ""),
      data |-> EmptyDict,
      last_status |-> "",
      pbar |-> <<>>,
      reqs |-> <<>>,
      downloads |-> <<>>,
      log |-> <<>>,
      sleeps |-> 0,
      error |-> "" ]

\* an uncaught Python exception ends the process
raise(r, err) == [r EXCEPT !.pc = "raise", !.error = err]

\* LOG.error(data["status"]); LOG.error(reason) if present; sys.exit(1)
exit_status(r, data) ==
    [r EXCEPT !.pc = "exit",
              !.data = data,
              !.log = @ \o <<Error("%s", data["status"])>>
                        \o (IF Get(data, "reason", "") # ""
                            THEN <<Error("%s", data["reason"])>> ELSE <<>>)]

\* the 401 branch of _request
exit_401(r) ==
    [r EXCEPT !.pc = "exit",
              !.log = Append(@, Error("Unauthorized Access. Check your token.", ""))]

\* send with the path of the href put under the client's own url, whatever
\* the origin of the href
SendUnderBase(r, method, href, response) ==
    [r EXCEPT !.reqs = Append(@, [method |-> method,
                                  url |-> [origin |-> r.url, path |-> href.path]]),
              !.response = response]

\* robust(type)(urljoin(self.url, href), ...) is called and returns
\* `response`, which is remembered as the last response received
send(r, method, href, response) ==
    [r EXCEPT !.reqs = Append(@, [method |-> method, url |-> urljoin(r.url, href)]),
              !.response = response]

LastUrl(r) == r.reqs[Len(r.reqs)].url

(* ------------------------------------------------------------------ *)
(* RemoteAPI.metadata, models, patch_retrieve_request                  *)
(* ------------------------------------------------------------------ *)

Returned(r, res) == [r EXCEPT !.pc = "returned", !.result = res]

\* RemoteAPI.metadata: GET metadata/<model>/<version>/<param> for a name,
\* POST metadata/<model>/<version> for a list of names
metadata(r, param_is_str, response) ==
    LET sent == IF param_is_str
                THEN send(r, "GET", RelHref("metadata/panguweather/latest/lagged"), response)
                ELSE send(r, "POST", RelHref("metadata/panguweather/latest"), response)
        res  == request(LastUrl(sent), response)
    IN  IF res.exit THEN exit_401(sent) ELSE Returned(sent, res)

\* RemoteAPI.models: a body that is not a list counts as no models
models(r, response) ==
    LET sent == send(r, "GET", RelHref("models"), response)
        res  == request(LastUrl(sent), response)
    IN  IF res.exit THEN exit_401(sent)
        ELSE IF res.kind # "list"
        THEN Returned(sent, [exit |-> FALSE, kind |-> "list", list |-> <<>>, dict |-> EmptyDict])
        ELSE Returned(sent, res)

\* RemoteAPI.patch_retrieve_request: POST patch; a result with a status
\* is an error
patch_retrieve_request(r, response) ==
    LET sent == send(r, "POST", RelHref("patch"), response)
        res  == request(LastUrl(sent), response)
    IN  IF res.exit THEN exit_401(sent)
        ELSE IF res.kind = "list" THEN raise(sent, "AttributeError")
        ELSE IF Get(res.dict, "status", "") # ""
        THEN [sent EXCEPT !.pc = "exit",
                          !.log = Append(@, Error("%s", res.dict["status"]))]
        ELSE Returned(sent, res)

ModelsResponses ==
    { Unauthorized, ListResponse(200, <<ModelName>>), ListResponse(200, <<>>),
      DictResponse(200, [status |-> "success"]), TextResponse(500, "Bad Gateway") }

MetadataResponses ==
    { Unauthorized, DictResponse(200, [lagged |-> "False"]),
      ListResponse(200, <<>>), TextResponse(500, "Bad Gateway") }

PatchResponses ==
    { Unauthorized, DictResponse(200, [date |-> "20230101"]),
      DictResponse(500, [status |-> "failed"]),
      ListResponse(200, <<>>), TextResponse(500, "Bad Gateway") }

(* ------------------------------------------------------------------ *)
(* RemoteAPI.run                                                       *)
(* ------------------------------------------------------------------ *)

\* line 64: the upload is accepted
UploadOkAlways(data) == TRUE

upload_ok(data) == data["status"] = "success"

\* line 75: the job is accepted
submit_ok(data) == data["status"] = "queued"

\* line 90, with a progress block that says the last step is reached
IsReadyOrProgressDone(data) ==
    \/ data["status"] = "ready"
    \/ HasKey(data, "progress") /\ Get(data["progress"], "step", 0) = 7

\* line 90
is_ready(data) == data["status"] = "ready"

IsFailedNever(data) == FALSE

\* line 96
is_failed(data) == data["status"] = "failed"

StatusChangedAlways(data, last_status) == TRUE

\* line 102
status_changed(data, last_status) == data["status"] # last_status

\* upload file: POST upload, then the test of the status
upload(r, response) ==
    LET logged == [r EXCEPT !.log = Append(@, Info("Uploading input file to remote server", ""))]
        sent == send(logged, "POST", RelHref("upload"), response)
        res  == request(LastUrl(sent), response)
        data == res.dict
    IN  IF res.exit THEN exit_401(sent)
        ELSE IF res.kind = "list" THEN raise(sent, "TypeError")
        ELSE IF ~HasKey(data, "status") THEN raise([sent EXCEPT !.data = data], "KeyError")
        ELSE IF ~upload_ok(data) THEN exit_status(sent, data)
        ELSE [sent EXCEPT !.pc = "uploaded", !.data = data]

\* submit task: POST the configuration to data["href"]
submit(r, response) ==
    IF ~HasKey(r.data, "href") THEN raise(r, "KeyError")
    ELSE
    LET sent == send(r, "POST", r.data["href"], response)
        res  == request(LastUrl(sent), response)
        data == res.dict
        told == [sent EXCEPT !.log = Append(@, Info("Inference request submitted", ""))]
    IN  IF res.exit THEN exit_401(sent)
        ELSE IF res.kind = "list" THEN raise(told, "TypeError")
        ELSE IF ~HasKey(data, "status") THEN raise([told EXCEPT !.data = data], "KeyError")
        ELSE IF ~submit_ok(data) THEN exit_status(told, data)
        ELSE IF ~HasKey(data, "id") THEN raise([told EXCEPT !.data = data], "KeyError")
        ELSE [told EXCEPT !.pc = "poll",
                          !.data = data,
                          !.log = @ \o <<Info("Request id: %s", data["id"]),
                                         Info("Request is %s", "queued")>>,
                          !.last_status = data["status"],
                          !.pbar = <<>>]

\* status.strip().capitalize() on the progress statuses of the model
StripCapitalize(s) == IF s = " running " THEN "Running" ELSE s

\* tqdm(total=..., initial=1)
tqdm(total) == [total |-> total, n |-> 1, postfix |-> "", desc |-> "", closed |-> FALSE]

\* lines 106-120: the progress indicator
show_progress(pbar, progress) ==
    LET p0 == IF pbar = <<>> THEN tqdm(Get(progress, "total", 0)) ELSE pbar[1]
        p1 == IF Get(progress, "eta", "") # ""
              THEN [p0 EXCEPT !.postfix = progress["eta"]] ELSE p0
        p2 == IF Get(progress, "status", "") # ""
              THEN [p1 EXCEPT !.desc = StripCapitalize(progress["status"])] ELSE p1
    IN  <<[p2 EXCEPT !.n = Get(progress, "step", 0)]>>

\* the while loop with a limit on the time spent polling: it gives up
\* after the first sleep
PollGivingUp(r, response) ==
    IF r.sleeps >= 1
    THEN [r EXCEPT !.pc = "exit", !.log = Append(@, Error("Timed out", ""))]
    ELSE IF ~HasKey(r.data, "href") THEN raise(r, "KeyError")
    ELSE
    LET sent == send(r, "GET", r.data["href"], response)
        res  == request(LastUrl(sent), response)
        data == res.dict
        got  == [sent EXCEPT !.data = data]
    IN  IF res.exit THEN exit_401(sent)
        ELSE IF res.kind = "list" THEN raise(sent, "TypeError")
        ELSE IF ~HasKey(data, "status") THEN raise(got, "KeyError")
        ELSE IF is_ready(data) THEN [got EXCEPT !.pc = "download"]
        ELSE IF is_failed(data) THEN [got EXCEPT !.pc = "exit"]
        ELSE [got EXCEPT !.last_status = data["status"], !.sleeps = @ + 1]

\* one iteration of the while loop, from the GET to the sleep
poll(r, response) ==
    IF ~HasKey(r.data, "href") THEN raise(r, "KeyError")
    ELSE
    LET sent == send(r, "GET", r.data["href"], response)
        res  == request(LastUrl(sent), response)
        data == res.dict
        got  == [sent EXCEPT !.data = data]
    IN  IF res.exit THEN exit_401(sent)
        ELSE IF res.kind = "list" THEN raise(sent, "TypeError")
        ELSE IF ~HasKey(data, "status") THEN raise(got, "KeyError")
        ELSE IF is_ready(data)
        THEN [got EXCEPT !.pc = "download",
                         !.pbar = IF @ = <<>> THEN @ ELSE <<[@[1] EXCEPT !.closed = TRUE]>>,
                         !.log = Append(@, Info("Request is %s", "ready"))]
        ELSE IF is_failed(data)
        THEN [got EXCEPT !.pc = "exit",
                         !.log = @ \o <<Error("Request failed", "")>>
                                   \o (IF Get(data, "reason", "") # ""
                                       THEN <<Error("%s", data["reason"])>> ELSE <<>>)]
        ELSE [got EXCEPT !.log = IF status_changed(data, r.last_status)
                                 THEN Append(@, Info("Request is %s", data["status"]))
                                 ELSE @,
                         !.last_status = IF status_changed(data, r.last_status)
                                         THEN data["status"] ELSE @,
                         !.pbar = IF Get(data, "progress", EmptyDict) # EmptyDict
                                  THEN show_progress(@, data["progress"]) ELSE @,
                         !.sleeps = @ + 1]

\* a download of the URL that was polled last
DownloadPolledUrl(r) ==
    [r EXCEPT !.pc = "done",
              !.downloads = Append(@, [url |-> LastUrl(r), target |-> r.output_file])]

\* download(urljoin(self.url, data["href"]), target=self.output_file)
download(r) ==
    IF ~HasKey(r.data, "href") THEN raise(r, "KeyError")
    ELSE [r EXCEPT !.pc = "done",
                   !.downloads = Append(@, [url |-> urljoin(r.url, r.data["href"]),
                                            target |-> r.output_file]),
                   !.log = Append(@, Debug("Result written to %s", r.output_file))]

(* ------------------------------------------------------------------ *)
(* Values of metadata and of requests                                  *)
(* ------------------------------------------------------------------ *)

\* A value is an int, a str, a set of str, or what printing makes of a
\* set: a JSON list (list(obj), in no particular order) or the sorted
\* values joined by "/".
IntV(n) == [t |-> "int", n |-> n, s |-> "", vs |-> {}]

StrV(s) == [t |-> "str", n |-> 0, s |-> s, vs |-> {}]

SetV(S) == [t |-> "set", n |-> 0, s |-> "", vs |-> S]

ListV(S) == [t |-> "list", n |-> 0, s |-> "", vs |-> S]

JoinedV(S) == [t |-> "joined", n |-> 0, s |-> "", vs |-> S]

\* Python's str() of an int or a str
str(v) == IF v.t = "int" THEN ToString(v.n) ELSE v.s

(* ------------------------------------------------------------------ *)
(* ArchiveCollector                                                    *)
(* ------------------------------------------------------------------ *)

UniqueWithoutDate == {"hdate", "time", "referenceDate", "type", "stream", "expver"}

UNIQUE == {"date", "hdate", "time", "referenceDate", "type", "stream", "expver"}

\* ArchiveCollector.__init__
NewCollector == [expect |-> 0, request |-> EmptyDict]

\* the loop of add with `self.request[k] = {str(v)}` for its first line
RECURSIVE AddItemsOverwriting(_, _, _)
AddItemsOverwriting(c, field, i) ==
    IF i > Len(field) THEN [collector |-> c, raised |-> {}]
    ELSE LET k  == field[i][1]
             c1 == [c EXCEPT !.request = Update(@, k :> {str(field[i][2])})]
         IN  IF k \in UNIQUE /\ Cardinality(c1.request[k]) > 1
             THEN [collector |-> c1, raised |-> {k}]
             ELSE AddItemsOverwriting(c1, field, i + 1)

\* The loop of ArchiveCollector.add from item i of field.items() on: the
\* collector as the loop leaves it, and the key the ValueError names if
\* the loop raised.  A field is the sequence of the (key, value) items of
\* the dict handle.as_mars(), in its order.
RECURSIVE add_items(_, _, _)
add_items(c, field, i) ==
    IF i > Len(field) THEN [collector |-> c, raised |-> {}]
    ELSE LET k  == field[i][1]
             c1 == [c EXCEPT !.request =
                       Update(@, k :> (Get(@, k, {}) \cup {str(field[i][2])}))]
         IN  IF k \in UNIQUE /\ Cardinality(c1.request[k]) > 1
             THEN [collector |-> c1, raised |-> {k}]
             ELSE add_items(c1, field, i + 1)

\* ArchiveCollector.add that puts the collector back as it was when the
\* loop raises
AddRolledBack(c, field) ==
    LET res == add_items([c EXCEPT !.expect = @ + 1], field, 1)
    IN  IF res.raised # {} THEN [collector |-> c, raised |-> res.raised] ELSE res

\* ArchiveCollector.add
add(c, field) == add_items([c EXCEPT !.expect = @ + 1], field, 1)

(* ------------------------------------------------------------------ *)
(* Model.write, collect_archive_requests, finalise                     *)
(* ------------------------------------------------------------------ *)

\* Model after __init__.  archive_requests: the option --archive-requests
\* is set; json: --json; requests_extra: the items "a=b" of
\* --requests-extra, each split at "="; archiving: the defaultdict of
\* collectors, in the order the paths came; emitted: the requests that
\* finalise wrote; error: the exception that ended the run; written: the
\* (path, field) of every output.write that returned.
NewModel(archive_requests, json, requests_extra) ==
    [ pc |-> "running",
      archive_requests |-> archive_requests,
      json |-> json,
      requests_extra |-> requests_extra,
      archiving |-> <<>>,
      emitted |-> <<>>,
      error |-> [type |-> "", key |-> ""],
      written |-> <<>> ]

HasPath(archiving, path) == \E i \in 1..Len(archiving) : archiving[i].path = path

Index(archiving, path) == CHOOSE i \in 1..Len(archiving) : archiving[i].path = path

\* Model.collect_archive_requests: self.archiving[path].add(handle.as_mars())
collect_archive_requests(m, path, field) ==
    IF ~m.archive_requests THEN m
    ELSE LET arch == IF HasPath(m.archiving, path) THEN m.archiving
                     ELSE Append(m.archiving, [path |-> path, archive |-> NewCollector])
             i    == Index(arch, path)
             res  == add(arch[i].archive, field)
             m1   == [m EXCEPT !.archiving = [arch EXCEPT ![i].archive = res.collector]]
         IN  IF res.raised # {}
             THEN [m1 EXCEPT !.pc = "raised",
                             !.error = [type |-> "ValueError",
                                        key |-> CHOOSE k \in res.raised : TRUE]]
             ELSE m1

\* Model.write once self.output.write has returned (handle, path), with
\* field = handle.as_mars()
write(m, path, field) ==
    collect_archive_requests(
        [m EXCEPT !.written = Append(@, [path |-> path, field |-> field])], path, field)

\* Model._requests_extra: the dict of the items, a later item winning
requests_extra_dict(items) ==
    [a \in {items[i][1] : i \in 1..Len(items)} |->
        items[CHOOSE i \in 1..Len(items) :
                 items[i][1] = a /\ \A j \in (i + 1)..Len(items) : items[j][1] # a][2]]

\* lines 141-145 with request.update(archive.request) moved last
ArchiveRequestArchiveWins(path, archive, extra) ==
    LET r0 == [expect |-> IntV(archive.expect)]
        r1 == IF path # {}
              THEN Update(r0, [source |-> StrV(ToString(CHOOSE x \in path : TRUE))]) ELSE r0
        r2 == Update(r1, [k \in DOMAIN extra |-> StrV(extra[k])])
    IN  Update(r2, [k \in DOMAIN archive.request |-> SetV(archive.request[k])])

\* lines 141-145 of finalise: the request of one path.  A path is None
\* ({}) or a file name; f'"{path}"' is the name in double quotes.
archive_request(path, archive, extra) ==
    LET r0 == [expect |-> IntV(archive.expect)]
        r1 == IF path # {}
              THEN Update(r0, [source |-> StrV(ToString(CHOOSE x \in path : TRUE))]) ELSE r0
        r2 == Update(r1, [k \in DOMAIN archive.request |-> SetV(archive.request[k])])
    IN  Update(r2, [k \in DOMAIN extra |-> StrV(extra[k])])

\* json_default of finalise: a set of several values becomes a list, a
\* set of one its value (obj.pop())
json_default(obj) ==
    IF obj.t = "set"
    THEN IF Cardinality(obj.vs) > 1 THEN ListV(obj.vs)
         ELSE StrV(CHOOSE x \in obj.vs : TRUE)
    ELSE obj

\* json.dumps(request, default=json_default): the sets go through default
dumps(req) == [k \in DOMAIN req |-> json_default(req[k])]

\* Model._print_request: every value printed as its str, the values of a
\* list or set sorted and joined by "/"
print_request(req) ==
    [k \in DOMAIN req |->
        LET v == req[k]
            items == IF v.t = "set" THEN v.vs ELSE {str(v)}
        IN  IF Cardinality(items) = 1 THEN StrV(CHOOSE x \in items : TRUE)
            ELSE JoinedV(items)]

\* obj.pop() of json_default empties the collector's own sets of one
\* value, for the keys that the extras did not replace
popped(archive, extra) ==
    [archive EXCEPT !.request =
        [k \in DOMAIN @ |->
            IF k \notin DOMAIN extra /\ Cardinality(@[k]) = 1 THEN {} ELSE @[k]]]

\* Model.finalise
finalise(m) ==
    IF ~m.archive_requests THEN [m EXCEPT !.pc = "finalised"]
    ELSE LET extra    == requests_extra_dict(m.requests_extra)
             requests == [i \in 1..Len(m.archiving) |->
                            archive_request(m.archiving[i].path, m.archiving[i].archive, extra)]
         IN  IF m.json
             THEN [m EXCEPT !.pc = "finalised",
                            !.emitted = [i \in 1..Len(requests) |-> dumps(requests[i])],
                            !.archiving = [i \in 1..Len(@) |->
                                             [@[i] EXCEPT !.archive = popped(@, extra)]]]
             ELSE [m EXCEPT !.pc = "finalised",
                            !.emitted = [i \in 1..Len(requests) |-> print_request(requests[i])]]

(* ------------------------------------------------------------------ *)
(* The archive bookkeeping as a state machine                          *)
(* ------------------------------------------------------------------ *)

\* None, or the file that split_output gives
Paths == Opt({"out.grib"})

DateValues == {IntV(20230101), StrV("20230101"), IntV(20230102)}

ParamValues == {StrV("2t"), StrV("z")}

\* what as_mars() gives for the fields written
Fields ==
    { << <<"date", d>>, <<"param", p>> >> : d \in DateValues, p \in ParamValues }
      \cup { << <<"param", StrV("z")>>, <<"time", IntV(1200)>>, <<"date", IntV(20230102)>> >>,
             << <<"time", IntV(0)>>, <<"date", IntV(20230101)>>, <<"param", StrV("2t")>> >> }

\* --requests-extra: none, class=od, date=20240101,date=20250101, and
\* expect=0
RequestsExtras ==
    { <<>>, << <<"class", "od">> >>, << <<"date", "20240101">>, <<"date", "20250101">> >>,
      << <<"expect", "0">> >> }

Write ==
    /\ model.pc = "running"
    /\ Len(model.written) < MaxWrites
    /\ \E path \in Paths, field \in Fields : model' = write(model, path, field)
    /\ UNCHANGED <<run, twin, fields, input, output>>

Finalise ==
    /\ model.pc = "running"
    /\ model' = finalise(model)
    /\ UNCHANGED <<run, twin, fields, input, output>>

ArchiveNext == Write \/ Finalise

(* ------------------------------------------------------------------ *)
(* The remote client as a state machine                                *)
(* ------------------------------------------------------------------ *)

Metadata ==
    /\ run.pc = "idle"
    /\ \E response \in MetadataResponses, param_is_str \in BOOLEAN :
          run' = metadata(run, param_is_str, response)
    /\ UNCHANGED <<twin, model, fields, input, output>>

Models ==
    /\ run.pc = "idle"
    /\ \E response \in ModelsResponses : run' = models(run, response)
    /\ UNCHANGED <<twin, model, fields, input, output>>

PatchRetrieveRequest ==
    /\ run.pc = "idle"
    /\ \E response \in PatchResponses : run' = patch_retrieve_request(run, response)
    /\ UNCHANGED <<twin, model, fields, input, output>>

Upload ==
    /\ run.pc = "idle"
    /\ \E response \in UploadResponses : run' = upload(run, response)
    /\ UNCHANGED <<twin, model, fields, input, output>>

Submit ==
    /\ run.pc = "uploaded"
    /\ \E response \in SubmitResponses : run' = submit(run, response)
    /\ UNCHANGED <<twin, model, fields, input, output>>

Poll ==
    /\ run.pc = "poll"
    /\ run.sleeps < MaxPolls
    /\ \E response \in PollResponses : run' = poll(run, response)
    /\ UNCHANGED <<twin, model, fields, input, output>>

Download ==
    /\ run.pc = "download"
    /\ run' = download(run)
    /\ UNCHANGED <<twin, model, fields, input, output>>

RemoteNext ==
    \/ Metadata \/ Models \/ PatchRetrieveRequest
    \/ Upload \/ Submit \/ Poll \/ Download

(* ------------------------------------------------------------------ *)
(* Two runs fed the same statuses and hrefs, with progress blocks of   *)
(* their own                                                           *)
(* ------------------------------------------------------------------ *)

\* `response` with its progress block replaced by the option p
WithProgress(response, p) ==
    IF response.kind # "dict" THEN response
    ELSE LET d == response.dict
         IN  [response EXCEPT !.dict =
                 Part("progress", p) @@ [k \in DOMAIN d \ {"progress"} |-> d[k]]]

TwinUpload ==
    /\ run.pc = "idle" /\ twin.pc = "idle"
    /\ \E response \in UploadResponses :
          run' = upload(run, response) /\ twin' = upload(twin, response)
    /\ UNCHANGED <<model, fields, input, output>>

TwinSubmit ==
    /\ run.pc = "uploaded" /\ twin.pc = "uploaded"
    /\ \E response \in SubmitResponses :
          run' = submit(run, response) /\ twin' = submit(twin, response)
    /\ UNCHANGED <<model, fields, input, output>>

TwinPoll ==
    /\ run.pc = "poll" /\ twin.pc = "poll"
    /\ run.sleeps < MaxTwinPolls
    /\ \E response \in PollResponses, p \in Opt(ProgressBlocks) :
          run' = poll(run, response) /\ twin' = poll(twin, WithProgress(response, p))
    /\ UNCHANGED <<model, fields, input, output>>

TwinDownload ==
    /\ run.pc = "download" /\ twin.pc = "download"
    /\ run' = download(run) /\ twin' = download(twin)
    /\ UNCHANGED <<model, fields, input, output>>

TwinNext == TwinUpload \/ TwinSubmit \/ TwinPoll \/ TwinDownload

(* ------------------------------------------------------------------ *)
(* datetime.datetime and datetime.timedelta                            *)
(* ------------------------------------------------------------------ *)

\* a datetime: year, month, day, hour, minute
datetime(y, m, d, hh, mm) == [year |-> y, month |-> m, day |-> d, hour |-> hh, minute |-> mm]

IsLeap(y) == y % 4 = 0 /\ (y % 100 # 0 \/ y % 400 = 0)

DAYS_IN_MONTH == <<31, 28, 31, 30, 31, 30, 31, 31, 30, 31, 30, 31>>

DaysInMonth(y, m) == IF m = 2 /\ IsLeap(y) THEN 29 ELSE DAYS_IN_MONTH[m]

\* the values the constructor of datetime accepts, the others raising
\* ValueError
IsDatetime(y, m, d, hh, mm) ==
    /\ y \in 1..9999 /\ m \in 1..12 /\ d \in 1..DaysInMonth(y, m)
    /\ hh \in 0..23 /\ mm \in 0..59

\* days before January 1st of year y
DaysBeforeYear(y) ==
    LET p == y - 1 IN p * 365 + (p \div 4) - (p \div 100) + (p \div 400)

\* days of year y before the first of month m
RECURSIVE DaysBeforeMonth(_, _)
DaysBeforeMonth(y, m) ==
    IF m = 1 THEN 0 ELSE DaysBeforeMonth(y, m - 1) + DaysInMonth(y, m - 1)

\* date.toordinal: January 1st of year 1 is day 1
ymd2ord(y, m, d) == DaysBeforeYear(y) + DaysBeforeMonth(y, m) + d

\* date.fromordinal, by the cycles of 400, 100, 4 and 1 years
ord2ymd(ordinal) ==
    LET n0   == ordinal - 1
        n400 == n0 \div 146097
        n1_  == n0 % 146097
        n100 == n1_ \div 36524
        n2_  == n1_ % 36524
        n4   == n2_ \div 1461
        n3_  == n2_ % 1461
        n1   == n3_ \div 365
        n    == n3_ % 365
        y    == n400 * 400 + 1 + n100 * 100 + n4 * 4 + n1
        leap == n1 = 3 /\ (n4 # 24 \/ n100 = 3)
        m0   == (n + 50) \div 32
        before(m) == DaysBeforeMonth(2023, m) + (IF m > 2 /\ leap THEN 1 ELSE 0)
        m    == IF before(m0) > n THEN m0 - 1 ELSE m0
    IN  IF n1 = 4 \/ n100 = 4
        THEN [year |-> y - 1, month |-> 12, day |-> 31]
        ELSE [year |-> y, month |-> m, day |-> n - before(m) + 1]

\* the hours added to the time of day, the day left as it is
AddHoursSameDay(dt, h) == [dt EXCEPT !.hour = (dt.hour + h) % 24]

\* dt + datetime.timedelta(hours=h)
AddHours(dt, h) ==
    LET minutes == (ymd2ord(dt.year, dt.month, dt.day) * 24 + dt.hour + h) * 60 + dt.minute
        ymd     == ord2ymd(minutes \div 1440)
    IN  datetime(ymd.year, ymd.month, ymd.day, (minutes % 1440) \div 60, minutes % 60)

\* dt + datetime.timedelta(days=n)
AddDays(dt, n) == AddHours(dt, 24 * n)

(* ------------------------------------------------------------------ *)
(* Model.datetimes and Model._datetimes                                *)
(* ------------------------------------------------------------------ *)

\* datetime.datetime.utcnow() of the run
utcnow == datetime(2024, 3, 1, 0, 30)

\* a call that raised, and a call that returned
Raised(err) == [raised |-> err, value |-> <<>>]

Return(v) == [raised |-> "", value |-> v]

\* lines 255-257, 294-296: a date <= 0 counts days back from today
resolve_date(date) ==
    IF date <= 0
    THEN LET d == AddDays(utcnow, date) IN d.year * 10000 + d.month * 100 + d.day
    ELSE date

NormalizeTimeAlways(time) == time * 100

\* lines 261-262, 300-301
normalize_time(time) == IF time < 100 THEN time * 100 ELSE time

\* lines 263, 303: assert time in (0, 600, 1200, 1800)
valid_time(time) == time \in {0, 600, 1200, 1800}

\* lines 274-277: the pair appended for a date-time
date_hour(d) == <<d.year * 10000 + d.month * 100 + d.day, d.hour>>

\* the loop over the lags with a pair appended only if it is new
RECURSIVE LagLoopNoDuplicates(_, _, _, _)
LagLoopNoDuplicates(result, basedate, lagged, j) ==
    IF j > Len(lagged) THEN result
    ELSE LET p == date_hour(AddHours(basedate, lagged[j]))
         IN  LagLoopNoDuplicates(
                 IF \E i \in 1..Len(result) : result[i] = p THEN result ELSE Append(result, p),
                 basedate, lagged, j + 1)

\* lines 271-278: for lag in lagged, from the j-th lag on
RECURSIVE lag_loop(_, _, _, _)
lag_loop(result, basedate, lagged, j) ==
    IF j > Len(lagged) THEN result
    ELSE lag_loop(Append(result, date_hour(AddHours(basedate, lagged[j]))),
                  basedate, lagged, j + 1)

\* lines 270-278: for basedate in dates, from the i-th date on
RECURSIVE date_loop(_, _, _, _)
date_loop(result, dates, lagged, i) ==
    IF i > Len(dates) THEN result
    ELSE date_loop(lag_loop(result, dates[i], lagged, 1), dates, lagged, i + 1)

\* Model._datetimes.  self.lagged is False, or the list of the lags in
\* hours: False and the empty list are both <<>>.
datetimes_of(m, dates) ==
    IF ~valid_time(normalize_time(m.time)) THEN Raised("AssertionError")
    ELSE Return(date_loop(<<>>, dates, IF m.lagged = <<>> THEN <<0>> ELSE m.lagged, 1))

\* Model.datetimes.  self.staging_dates is None ({}) or a file, given by
\* the date-times that its lines parse to.
datetimes(m, step) ==
    IF m.staging_dates # {}
    THEN IF step # 0 THEN Raised("AssertionError")
         ELSE datetimes_of(m, CHOOSE dates \in m.staging_dates : TRUE)
    ELSE LET date == resolve_date(m.date)
             time == normalize_time(m.time)
         IN  IF ~valid_time(time) THEN Raised("AssertionError")
             ELSE IF ~IsDatetime(date \div 10000, (date % 10000) \div 100, date % 100,
                                 time \div 100, time % 100)
                  THEN Raised("ValueError")
                  ELSE datetimes_of(m, << AddHours(datetime(date \div 10000,
                                                            (date % 10000) \div 100,
                                                            date % 100,
                                                            time \div 100, time % 100),
                                                   step) >>)

(* ------------------------------------------------------------------ *)
(* Model._requests_unfiltered and Model._requests                      *)
(* ------------------------------------------------------------------ *)

\* A request is a dict: levtype and target are strings, date and time
\* ints, levelist and param lists (sequences), grid and area lists; a
\* param that a filter narrowed is list(<set>), a list in no particular
\* order, kept as the set of its items.

\* set(<list>)
set(l) == {l[i] : i \in 1..Len(l)}

\* dict.pop(k, None)
pop(d, k) == [x \in DOMAIN d \ {k} |-> d[x]]

\* lines 367-372: the keys that the first request carries
first_request(m) ==
    Update([target |-> "input.grib", grid |-> m.grid, area |-> m.area], m.retrieve)

NextFirstKept(first) == first

\* line 385: first = {}
next_first(first) == EmptyDict

\* Model.patch_retrieve_request: "Overriden in subclasses if needed"
model_patch_retrieve_request(r) == r

\* lines 375-391: the pressure-level request of a (date, time)
pressure_request(m, first, dt) ==
    LET r == [levtype |-> "pl", levelist |-> m.param_level_pl[2],
              param |-> m.param_level_pl[1], date |-> dt[1], time |-> dt[2]]
    IN  model_patch_retrieve_request(
            Update(Update(r, first), requests_extra_dict(m.requests_extra)))

SurfaceRequestKeepsLevelist(m, r) ==
    model_patch_retrieve_request(Update(r, [levtype |-> "sfc", param |-> m.param_sfc]))

\* lines 393-402: the surface request, made of the pressure-level one
surface_request(m, r) ==
    model_patch_retrieve_request(
        pop(Update(r, [levtype |-> "sfc", param |-> m.param_sfc]), "levelist"))

\* lines 374-402: for date, time in self.datetimes(), from the i-th on
RECURSIVE requests_loop(_, _, _, _, _)
requests_loop(m, result, first, dts, i) ==
    IF i > Len(dts) THEN result
    ELSE LET r == pressure_request(m, first, dts[i])
         IN  requests_loop(m, result \o <<r, surface_request(m, r)>>,
                           next_first(first), dts, i + 1)

\* Model._requests_unfiltered
requests_unfiltered(m) ==
    LET dts == datetimes(m, 0)
    IN  IF dts.raised # "" THEN dts
        ELSE Return(requests_loop(m, <<>>, first_request(m), dts.value, 1))

\* what a filter answers: its truth value and the request as it left it
Filtered(keep, r) == [keep |-> keep, request |-> r]

FilterConstantAnyLevtype(m, r) ==
    LET param == set(m.constant_fields) \cap set(r["param"])
    IN  IF param # {} THEN Filtered(TRUE, Update(r, [param |-> param]))
        ELSE Filtered(FALSE, r)

\* lines 408-416.  self.constant_fields is what the subclass gives.
filter_constant(m, r) ==
    IF HasKey(r, "levtype") /\ r["levtype"] = "sfc"
    THEN LET param == set(m.constant_fields) \cap set(r["param"])
         IN  IF param # {} THEN Filtered(TRUE, Update(r, [param |-> param]))
             ELSE Filtered(FALSE, r)
    ELSE Filtered(FALSE, r)

FilterPrognosticKeepsConstants(m, r) ==
    IF HasKey(r, "levtype") /\ r["levtype"] = "sfc"
    THEN Filtered(TRUE, Update(r, [param |-> set(r["param"])]))
    ELSE Filtered(TRUE, r)

\* lines 418-428
filter_prognostic(m, r) ==
    IF HasKey(r, "levtype") /\ r["levtype"] = "sfc"
    THEN LET param == set(r["param"]) \ set(m.constant_fields)
         IN  IF param # {} THEN Filtered(TRUE, Update(r, [param |-> param]))
             ELSE Filtered(FALSE, r)
    ELSE Filtered(TRUE, r)

\* max of a list of pairs, pairs ordered as Python orders tuples
max(pairs) ==
    LET le(a, b) == a[1] < b[1] \/ (a[1] = b[1] /\ a[2] <= b[2])
    IN  CHOOSE p \in set(pairs) : \A q \in set(pairs) : le(q, p)

FilterLastDateOnly(m, r) ==
    r["date"] = max(datetimes(m, 0).value)[1]

\* lines 430-432
filter_last_date(m, r) ==
    LET last == max(datetimes(m, 0).value)
    IN  r["date"] = last[1] /\ r["time"] = last[2]

\* lines 434-435: a request, which is not empty, counts as true
noop(r) == Filtered(TRUE, r)

\* lines 437-441
filter_type(m, r) ==
    CASE m.retrieve_fields_type = "constants"   -> filter_constant(m, r)
      [] m.retrieve_fields_type = "prognostics" -> filter_prognostic(m, r)
      [] m.retrieve_fields_type = "all"         -> noop(r)

\* lines 443-446
filter_dates(m, r) == IF m.retrieve_only_one_date THEN filter_last_date(m, r) ELSE TRUE

\* lines 448-451: for r in self._requests_unfiltered(), from the i-th on
RECURSIVE filter_loop(_, _, _, _)
filter_loop(m, result, rs, i) ==
    IF i > Len(rs) THEN result
    ELSE LET f == filter_type(m, rs[i])
         IN  filter_loop(m,
                         IF f.keep /\ filter_dates(m, f.request)
                         THEN Append(result, f.request) ELSE result,
                         rs, i + 1)

\* Model._requests
requests(m) ==
    LET rs == requests_unfiltered(m)
    IN  IF rs.raised # "" THEN rs ELSE Return(filter_loop(m, <<>>, rs.value, 1))

(* ------------------------------------------------------------------ *)
(* The request builder as a state machine                              *)
(* ------------------------------------------------------------------ *)

\* Model with the attributes that datetimes and _requests read; call,
\* step and result: the method called on it, with its step, and what
\* the call gave
ModelWith(date, time, lagged, staging_dates, param_sfc, retrieve_fields_type, retrieve_only_one_date, retrieve, requests_extra) ==
    [ pc |-> "init",
      date |-> date,
      time |-> time,
      lagged |-> lagged,
      staging_dates |-> staging_dates,
      grid |-> <<"0.25", "0.25">>,
      area |-> <<90, 0, -90, 360>>,
      param_level_pl |-> << <<"t", "z">>, <<500, 850>> >>,
      param_sfc |-> param_sfc,
      constant_fields |-> <<"z", "sdor", "slor">>,
      retrieve_fields_type |-> retrieve_fields_type,
      retrieve_only_one_date |-> retrieve_only_one_date,
      retrieve |-> retrieve,
      requests_extra |-> requests_extra,
      call |-> "",
      step |-> 0,
      result |-> Return(<<>>) ]

\* --date: a day, today, yesterday, and a day that does not exist
BaseDates == {20231231, 0, -1, 20230230}

\* --time
BaseTimes == {0, 7, 12, 600, 700, 1800}

\* lagged of the model class: False, or the lags in hours
Laggeds == { <<>>, <<-6, 0>>, <<0, 0>> }

\* --staging-dates: not given, an empty file, a file of three lines
StagingDates ==
    Opt({ <<>>,
          << datetime(2024, 1, 1, 0, 0), datetime(2023, 12, 31, 18, 30),
             datetime(2024, 1, 1, 0, 0) >> })

\* step of datetimes(step), in hours
Steps == {0, 6, 24}

ParamSfcs == { <<"2t", "z">>, <<"2t", "10u">>, <<"z", "sdor">> }

\* retrieve of the model class with --requests-extra
RetrieveAndExtras ==
    { <<EmptyDict, <<>> >>,
      <<[class |-> "ea"], <<>> >>,
      <<EmptyDict, << <<"class", "od">> >> >>,
      <<[class |-> "ea"], << <<"target", "other.grib">>, <<"expver", "1">> >> >> }

\* the call m.<call>(step) ended with the result res
Called(m, call, step, res) ==
    [m EXCEPT !.pc = IF res.raised # "" THEN "raised" ELSE "returned",
              !.call = call, !.step = step, !.result = res]

Datetimes ==
    /\ model.pc = "init"
    /\ \E step \in Steps : model' = Called(model, "datetimes", step, datetimes(model, step))
    /\ UNCHANGED <<run, twin, fields, input, output>>

RequestsUnfiltered ==
    /\ model.pc = "init"
    /\ model' = Called(model, "_requests_unfiltered", 0, requests_unfiltered(model))
    /\ UNCHANGED <<run, twin, fields, input, output>>

Requests ==
    /\ model.pc = "init"
    /\ model' = Called(model, "_requests", 0, requests(model))
    /\ UNCHANGED <<run, twin, fields, input, output>>

RequestsNext == Datetimes \/ RequestsUnfiltered \/ Requests

(* ------------------------------------------------------------------ *)
(* Fields, WrappedField, NewDataField, NewMetadataField                *)
(* ------------------------------------------------------------------ *)

\* The fields are objects, objs[i] the i-th made: a field that a source
\* loaded, with its metadata and its values, or a wrapper with _field
\* the index of the object it wraps.  A value of a field is a number
\* with five decimals, counted in units of 0.00001.
Unit == 100000

Num(n) == n * Unit

Field(meta, values) ==
    [cls |-> "Field", field |-> 0, metadata |-> meta, data |-> values]

\* NewMetadataField.__init__
NewMetadataField(field, kwargs) ==
    [cls |-> "NewMetadataField", field |-> field, metadata |-> kwargs, data |-> <<>>]

\* NewDataField.__init__
NewDataField(field, data) ==
    [cls |-> "NewDataField", field |-> field, metadata |-> EmptyDict, data |-> data]

\* metadata(key) with the field asked before the overrides
RECURSIVE FieldMetadataInnerFirst(_, _, _)
FieldMetadataInnerFirst(objs, i, key) ==
    LET o == objs[i]
    IN  IF o.cls = "Field"
        THEN IF HasKey(o.metadata, key) THEN Return(o.metadata[key]) ELSE Raised("KeyError")
        ELSE LET inner == FieldMetadataInnerFirst(objs, o.field, key)
             IN  IF inner.raised = "" THEN inner
                 ELSE IF o.cls = "NewMetadataField" /\ HasKey(o.metadata, key)
                      THEN Return(o.metadata[key]) ELSE inner

\* objs[i].metadata(key): NewMetadataField.metadata with one argument,
\* WrappedField.__getattr__ for NewDataField, and the field's own
\* metadata, which raises KeyError for a key it has not
RECURSIVE field_metadata(_, _, _)
field_metadata(objs, i, key) ==
    LET o == objs[i]
    IN  IF o.cls = "NewMetadataField"
        THEN IF HasKey(o.metadata, key) THEN Return(o.metadata[key])
             ELSE field_metadata(objs, o.field, key)
        ELSE IF o.cls = "NewDataField" THEN field_metadata(objs, o.field, key)
        ELSE IF HasKey(o.metadata, key) THEN Return(o.metadata[key])
        ELSE Raised("KeyError")

\* objs[i].to_numpy(): NewDataField.to_numpy, WrappedField.__getattr__
\* for NewMetadataField, and the field's own values
RECURSIVE to_numpy(_, _)
to_numpy(objs, i) ==
    LET o == objs[i]
    IN  IF o.cls = "NewMetadataField" THEN to_numpy(objs, o.field) ELSE o.data

(* ------------------------------------------------------------------ *)
(* make_z_from_gh                                                      *)
(* ------------------------------------------------------------------ *)

\* G = 9.80665
G == 980665

\* x * G cut to five decimals, for x >= 0 with five decimals: with
\* x = n + f / Unit and G = 9 + 80000 / Unit + 665 / Unit it is
\* n * G + 9 * f + (80000 * f + 665 * f) / Unit, the steps kept small
times_G(x) ==
    LET n == x \div Unit
        f == x % Unit
    IN  n * G + 9 * f + (4 * f) \div 5
          + (20000 * ((4 * f) % 5) + 665 * f) \div Unit

\* line 30, with the values written as they are
WrittenUnscaled(f) == Field(Update(f.metadata, [param |-> StrV("z")]), f.data)

\* line 30: out.write(f.to_numpy() * G, template=f, param="z"), as the
\* field reads back from the file
written_as_z(f) ==
    Field(Update(f.metadata, [param |-> StrV("z")]),
          [k \in 1..Len(f.data) |-> times_G(f.data[k])])

\* line 29
is_gh(f) == f.metadata["param"] = StrV("gh")

\* make_z_from_gh: the fields that are not gh, then the fields of the
\* file that the others were written to
make_z_from_gh(ds) ==
    SelectSeq(ds, LAMBDA f : ~is_gh(f))
        \o [k \in 1..Len(SelectSeq(ds, is_gh)) |-> written_as_z(SelectSeq(ds, is_gh)[k])]

(* ------------------------------------------------------------------ *)
(* The fields as a state machine                                       *)
(* ------------------------------------------------------------------ *)

\* objs: the objects; last: the last call on them and what it gave;
\* out: what make_z_from_gh returned
FieldsOf(objs) ==
    [ objs |-> objs,
      last |-> [call |-> "", obj |-> 0, key |-> "", result |-> Return(<<>>)],
      out |-> <<>> ]

NoFields == FieldsOf(<<>>)

\* the fields that a source loads
LoadedFields ==
    { Field([param |-> StrV("gh"), levtype |-> StrV("pl"), level |-> IntV(500)], <<Num(1000)>>),
      Field([param |-> StrV("gh"), levtype |-> StrV("pl"), level |-> IntV(850)], <<0, Num(5) + 54321>>),
      Field([param |-> StrV("z"), levtype |-> StrV("pl"), level |-> IntV(500)], <<Num(9806) + 65000>>),
      Field([param |-> StrV("t"), levtype |-> StrV("pl"), level |-> IntV(500)], <<Num(250)>>) }

\* the lists of at most n loaded fields
RECURSIVE FieldLists(_)
FieldLists(n) ==
    IF n = 0 THEN { <<>> }
    ELSE FieldLists(n - 1)
           \cup { Append(l, f) : l \in {x \in FieldLists(n - 1) : Len(x) = n - 1},
                                 f \in LoadedFields }

\* the overrides of NewMetadataField, the data of NewDataField, and the
\* keys asked for
Overrides == { [param |-> StrV("z")], [param |-> StrV("gh"), levtype |-> StrV("sfc")] }

NewData == { <<Num(7)>> }

MetadataKeys == {"param", "levtype", "level", "step"}

Wrappers(f) == {i \in 1..Len(f.objs) : f.objs[i].cls # "Field"}

Calling(f, call, i, key, res) ==
    [f EXCEPT !.last = [call |-> call, obj |-> i, key |-> key, result |-> res]]

WrapMetadata ==
    /\ fields.last.call = ""
    /\ Cardinality(Wrappers(fields)) < MaxWraps
    /\ \E i \in 1..Len(fields.objs), kwargs \in Overrides :
          fields' = [fields EXCEPT !.objs = Append(@, NewMetadataField(i, kwargs))]
    /\ UNCHANGED <<run, twin, model, input, output>>

WrapData ==
    /\ fields.last.call = ""
    /\ Cardinality(Wrappers(fields)) < MaxWraps
    /\ \E i \in 1..Len(fields.objs), data \in NewData :
          fields' = [fields EXCEPT !.objs = Append(@, NewDataField(i, data))]
    /\ UNCHANGED <<run, twin, model, input, output>>

GetMetadata ==
    /\ fields.last.call = ""
    /\ \E i \in 1..Len(fields.objs), key \in MetadataKeys :
          fields' = Calling(fields, "metadata", i, key, field_metadata(fields.objs, i, key))
    /\ UNCHANGED <<run, twin, model, input, output>>

ToNumpy ==
    /\ fields.last.call = ""
    /\ \E i \in 1..Len(fields.objs) :
          fields' = Calling(fields, "to_numpy", i, "", Return(to_numpy(fields.objs, i)))
    /\ UNCHANGED <<run, twin, model, input, output>>

MakeZFromGh ==
    /\ fields.last.call = ""
    /\ Wrappers(fields) = {}
    /\ fields' = [Calling(fields, "make_z_from_gh", 0, "", Return(<<>>))
                    EXCEPT !.out = make_z_from_gh(fields.objs)]
    /\ UNCHANGED <<run, twin, model, input, output>>

FieldsNext == WrapMetadata \/ WrapData \/ GetMetadata \/ ToNumpy \/ MakeZFromGh

(* ------------------------------------------------------------------ *)
(* OpenDataInput                                                       *)
(* ------------------------------------------------------------------ *)

\* None as a metadata value
NoneV == [t |-> "none", n |-> 0, s |-> "", vs |-> {}]

\* CONSTANTS of opendata.py
Constants == <<"z", "sdor", "slor">>

\* RESOLS: resol, source grid, interp, oversampling (the metadata of the
\* target grid is only handed on to Interpolate)
RESOLS ==
    [g \in {<<"0.25", "0.25">>, <<"0.1", "0.1">>} |->
        IF g = <<"0.25", "0.25">>
        THEN [resol |-> "0p25", source |-> <<"0.25", "0.25">>, interp |-> FALSE, oversampling |-> FALSE]
        ELSE [resol |-> "0p25", source |-> <<"0.25", "0.25">>, interp |-> TRUE, oversampling |-> TRUE]]

\* str.lower, on the names that are asked for
lower(s) ==
    CASE s = "Z" -> "z"
      [] s = "T" -> "t"
      [] s = "2T" -> "2t"
      [] OTHER -> s

\* a record of the log
LogRecord(level, msg, params) == [level |-> level, msg |-> msg, params |-> params]

\* an exception with its message
RaisedWith(err, msg) == [raised |-> err, value |-> msg]

\* Interpolate.__init__(self, *, source, target): no positional argument
\* is taken, and source and target are to be given by name
Interpolate(args, kwargs) ==
    IF Len(args) > 0 \/ DOMAIN kwargs # {"source", "target"}
    THEN Raised("TypeError")
    ELSE Return([source |-> kwargs.source, target |-> kwargs.target])

\* OpenDataInput._adjust: kwargs as it leaves them, what is logged, and
\* the interpolation returned or the exception raised (r of lines 79-80
\* is not read again)
adjust(kwargs) ==
    LET k1 == IF HasKey(kwargs, "step") THEN kwargs ELSE Update(kwargs, [step |-> 0])
        k2 == IF HasKey(k1, "level")
              THEN Update(pop(k1, "level"), [levelist |-> k1.level]) ELSE k1
        k3 == pop(k2, "area")
        grid == k3.grid
        k4 == pop(k3, "grid")
    IN  IF grid \notin DOMAIN RESOLS
        THEN [raised |-> "KeyError", kwargs |-> k4, log |-> <<>>, interpolate |-> ""]
        ELSE LET resol == RESOLS[grid]
                 k5 == Update(k4, [resol |-> resol.resol])
             IN  IF resol.interp
                 THEN LET made == Interpolate(<<grid, resol.source, EmptyDict>>, EmptyDict)
                      IN  [ raised |-> made.raised,
                            kwargs |-> k5,
                            log |-> <<LogRecord("info", "Interpolating input data from %s to %s.", <<>>)>>
                                      \o (IF resol.oversampling
                                          THEN <<LogRecord("warning", "This will oversample the input data.", <<>>)>>
                                          ELSE <<>>),
                            interpolate |-> "Interpolate" ]
                 ELSE [raised |-> "", kwargs |-> k5, log |-> <<>>, interpolate |-> "_identity"]

\* _identity, the only interpolation that _adjust returns
call_interpolate(interpolate, ds) == ds

\* the (param, levelist) pairs of a request, in the order of its lists;
\* a request without levelist has levelist 0 here
PairsOf(kwargs) ==
    LET np == Len(kwargs.param)
    IN  IF HasKey(kwargs, "levelist")
        THEN LET nl == Len(kwargs.levelist)
             IN  [k \in 1..(np * nl) |->
                     [param |-> kwargs.param[((k - 1) \div nl) + 1],
                      levelist |-> kwargs.levelist[((k - 1) % nl) + 1]]]
        ELSE [k \in 1..np |-> [param |-> kwargs.param[k], levelist |-> 0]]

\* a field of the open data: on the grid that starts at longitude 180,
\* two values in a row
OpenDataField(pair, kwargs) ==
    Field([param |-> StrV(lower(pair.param)),
           levtype |-> StrV(kwargs.levtype),
           levelist |-> IntV(pair.levelist),
           date |-> IntV(kwargs.date),
           time |-> IntV(kwargs.time),
           step |-> IntV(kwargs.step),
           longitudeOfFirstGridPointInDegrees |-> IntV(180)],
          <<Num(1), Num(2)>>)

\* the list without its k-th item (the list itself when it has none)
Without(l, k) == [j \in 1..(Len(l) - (IF k \in 1..Len(l) THEN 1 ELSE 0)) |->
                     IF k \in 1..Len(l) /\ j >= k THEN l[j + 1] ELSE l[j]]

\* the items of the list from the k-th on whose place is not in lacks
RECURSIVE Kept(_, _, _)
Kept(l, k, lacks) ==
    IF k > Len(l) THEN <<>>
    ELSE (IF k \in lacks THEN <<>> ELSE <<l[k]>>) \o Kept(l, k + 1, lacks)

\* ekd.from_source("ecmwf-open-data", **kwargs): the fields asked for,
\* but for the ones that the open data have not (lacks, the places of
\* their pairs) and with the ones that they give unasked (more)
from_source_opendata(kwargs, lacks, more) ==
    LET pairs == Kept(PairsOf(kwargs), 1, lacks) \o more
    IN  [k \in 1..Len(pairs) |-> OpenDataField(pairs[k], kwargs)]

\* np.roll(data, -Ni // 2, axis=1), for one row of values
roll(data) ==
    [k \in 1..Len(data) |-> data[((k - 1 + Len(data) \div 2) % Len(data)) + 1]]

\* recenter: every field written with its values rolled and its grid
\* starting at longitude 0, and the file read back
recenter(ds) ==
    [k \in 1..Len(ds) |->
        Field(Update(ds[k].metadata, [longitudeOfFirstGridPointInDegrees |-> IntV(0)]),
              roll(ds[k].data))]

\* constants-0p25.grib2
ConstantsFile ==
    [k \in 1..Len(Constants) |->
        Field([param |-> StrV(Constants[k]),
               levtype |-> StrV("sfc"),
               levelist |-> IntV(0),
               date |-> IntV(20230101),
               time |-> IntV(0),
               step |-> IntV(0),
               longitudeOfFirstGridPointInDegrees |-> IntV(0)],
              <<Num(k), Num(k)>>)]

\* ds.sel(param=params)
sel_param(ds, params) == SelectSeq(ds, LAMBDA f : f.metadata["param"].s \in set(params))

\* CONSTANTS_URL.format(resol=...)
constants_url(resol) == "constants-" \o resol \o ".grib2"

\* the warning with the parameters named
ConstantsWarning(constant_params) ==
    IF Len(constant_params) = 1
    THEN LogRecord("warning",
                   "Single level parameter '%s' is not available in ECMWF open data, using constants.grib2 instead",
                   <<constant_params[1]>>)
    ELSE LogRecord("warning",
                   "Single level parameters %s are not available in ECMWF open data, using constants.grib2 instead",
                   constant_params)

\* lines 152-159 with the fields written as they are in the file
RetaggedNot(f, kwargs) == f

\* lines 152-159: a field of the file written with the date, time and
\* step of kwargs
retagged(f, kwargs) ==
    Field(Update(f.metadata, [date |-> IntV(kwargs.date),
                              time |-> IntV(kwargs.time),
                              step |-> IntV(Get(kwargs, "step", 0))]),
          f.data)

\* OpenDataInput.constants: the log record, the download when the file
\* is not in the cache, and the fields
constants(constant_params, req, kwargs, cached) ==
    LET url == constants_url(req.resol)
        ds == sel_param(ConstantsFile, constant_params)
    IN  [ log |-> <<ConstantsWarning(constant_params)>>,
          downloads |-> IF cached THEN <<>> ELSE <<url>>,
          fields |-> [k \in 1..Len(ds) |-> retagged(ds[k], kwargs)] ]

\* a list of fields with the objects that its items are: the k-th item
\* of the list is objs[list[k]]
FieldArray(objs, list) == [objs |-> objs, list |-> list]

Plain(ds) == FieldArray(ds, [k \in 1..Len(ds) |-> k])

\* line 197: FieldArray([NewMetadataField(f, levelist=None) for f in opendata])
relabel(ds) ==
    FieldArray(ds \o [k \in 1..Len(ds) |-> NewMetadataField(k, [levelist |-> NoneV])],
               [k \in 1..Len(ds) |-> Len(ds) + k])

(* ------------------------------------------------------------------ *)
(* OpenDataInput._check                                                *)
(* ------------------------------------------------------------------ *)

\* itertools.product of the lists, as a set of tuples
RECURSIVE product(_)
product(lists) ==
    IF Len(lists) = 0 THEN { <<>> }
    ELSE { <<x>> \o p : x \in set(lists[1]), p \in product(Tail(lists)) }

\* what a message shows of an item: a value, or None
Shown(p) == [none |-> FALSE, of |-> p]

ShownNone == [none |-> TRUE, of |-> <<>>]

\* _ with a tuple of any length returned
UnderscoreWhole(p) == Shown(p)

\* _ of lines 225-227: p[0] of a tuple of one, else None
underscore(p) == IF Len(p) = 1 THEN Shown(<<p[1]>>) ELSE ShownNone

\* [_(p) for p in S], in no order: how many times each item is there
ListOf(S) ==
    [v \in {underscore(p) : p \in S} |-> Cardinality({p \in S : underscore(p) = v})]

\* the message of a ValueError of _check
Message(text, what, S) ==
    [text |-> text, what |-> what,
     form |-> IF Cardinality(S) = 1 THEN "one" ELSE "list",
     items |-> ListOf(S)]

\* the values of the request as the fields have them
ValueOf(key, x) == IF key = "param" THEN StrV(x) ELSE IntV(x)

\* _check without lines 244-249
CheckMissingOnly(ds, what, req, keys) ==
    LET expected == product([k \in 1..Len(keys) |->
                                [j \in 1..Len(req[keys[k]]) |->
                                    ValueOf(keys[k], req[keys[k]][j])]])
        found == { [k \in 1..Len(keys) |-> field_metadata(ds.objs, ds.list[i], keys[k]).value] :
                      i \in 1..Len(ds.list) }
    IN  IF expected \ found # {}
        THEN RaisedWith("ValueError", Message("The following %s parameter is not available in ECMWF open data", what, expected \ found))
        ELSE Return(<<>>)

\* OpenDataInput._check
check(ds, what, req, keys) ==
    LET expected == product([k \in 1..Len(keys) |->
                                [j \in 1..Len(req[keys[k]]) |->
                                    ValueOf(keys[k], req[keys[k]][j])]])
        found == { [k \in 1..Len(keys) |-> field_metadata(ds.objs, ds.list[i], keys[k]).value] :
                      i \in 1..Len(ds.list) }
        missing == expected \ found
        extra == found \ expected
    IN  IF missing # {}
        THEN RaisedWith("ValueError", Message("The following %s parameter is not available in ECMWF open data", what, missing))
        ELSE IF extra # {}
        THEN RaisedWith("ValueError", Message("Unexpected %s parameter from ECMWF open data", what, extra))
        ELSE Return(<<>>)

check_pl(ds, req) == check(ds, "PL", req, <<"param", "levelist">>)

check_sfc(ds, req) == check(ds, "SFC", req, <<"param">>)

check_ml(ds, req) == check(ds, "ML", req, <<"param", "levelist">>)

(* ------------------------------------------------------------------ *)
(* pl_load_source, sfc_load_source, ml_load_source                     *)
(* ------------------------------------------------------------------ *)

\* a stage that ran: the function called, what it was given and what
\* it gave
Stage(stage, fn, given, gave) == [stage |-> stage, fn |-> fn, given |-> given, gave |-> gave]

\* lines 113-115 with the interpolation before the conversion
PlStagesInterpolateFirst(got, gh_to_z, interpolate) ==
    LET s1 == recenter(got)
        s2 == call_interpolate(interpolate, s1)
        s3 == IF gh_to_z = "make_z_from_gh" THEN make_z_from_gh(s2) ELSE s2
    IN  << Stage("recenter", "recenter", Plain(got), Plain(s1)),
           Stage("interpolate", interpolate, Plain(s1), Plain(s2)),
           Stage("gh_to_z", gh_to_z, Plain(s2), Plain(s3)) >>

\* lines 113-115
pl_stages(got, gh_to_z, interpolate) ==
    LET s1 == recenter(got)
        s2 == IF gh_to_z = "make_z_from_gh" THEN make_z_from_gh(s1) ELSE s1
        s3 == call_interpolate(interpolate, s2)
    IN  << Stage("recenter", "recenter", Plain(got), Plain(s1)),
           Stage("gh_to_z", gh_to_z, Plain(s1), Plain(s2)),
           Stage("interpolate", interpolate, Plain(s2), Plain(s3)) >>

\* lines 191-197
sfc_stages(got, constant_fields, interpolate) ==
    LET s1 == recenter(got)
        s2 == s1 \o constant_fields
        s3 == call_interpolate(interpolate, s2)
    IN  << Stage("recenter", "recenter", Plain(got), Plain(s1)),
           Stage("interpolate", interpolate, Plain(s2), Plain(s3)),
           Stage("relabel", "NewMetadataField", Plain(s3), relabel(s3)) >>

\* lines 206-207
ml_stages(got, interpolate) ==
    LET s1 == recenter(got)
        s2 == call_interpolate(interpolate, s1)
    IN  << Stage("recenter", "recenter", Plain(got), Plain(s1)),
           Stage("interpolate", interpolate, Plain(s1), Plain(s2)) >>

\* the input: the call made on it and its kwargs, whether the constants
\* are in ~/.cache/ai-models, the requests sent to the open data, the
\* downloads, the log, the stages that ran, and what the call gave
NewInput(cached) ==
    [ pc |-> "init",
      call |-> "",
      kwargs |-> EmptyDict,
      request |-> EmptyDict,
      cached |-> cached,
      sent |-> <<>>,
      downloads |-> <<>>,
      log |-> <<>>,
      stages |-> <<>>,
      result |-> Return(<<>>) ]

NoInput == NewInput(FALSE)

\* the call raised in _adjust
AdjustRaised(inp, call, kwargs, a) ==
    [inp EXCEPT !.pc = "returned", !.call = call, !.kwargs = kwargs,
                !.log = a.log, !.result = Raised(a.raised)]

\* the call got as far as the check
Checked(inp, call, kwargs, req, sent, downloads, log, stages, res) ==
    LET ds == stages[Len(stages)].gave
    IN  [inp EXCEPT !.pc = "returned", !.call = call, !.kwargs = kwargs,
                    !.request = req,
                    !.cached = inp.cached \/ downloads # <<>>,
                    !.sent = <<sent>>,
                    !.downloads = downloads,
                    !.log = log,
                    !.stages = Append(stages, Stage("check", call, ds, ds)),
                    !.result = IF res.raised = "" THEN Return(ds) ELSE res]

\* [p.lower() for p in param]
lowered(param) == [k \in 1..Len(param) |-> lower(param[k])]

\* param.remove(x): the list without the first x
remove(param, x) ==
    Without(param, CHOOSE k \in 1..Len(param) : param[k] = x /\ \A j \in 1..(k - 1) : param[j] # x)

\* lines 179-182, for the constants from the k-th on
RECURSIVE remove_constants(_, _)
remove_constants(param, k) ==
    IF k > Len(Constants) THEN [param |-> param, constant_params |-> <<>>]
    ELSE IF Constants[k] \in set(param)
         THEN LET rest == remove_constants(remove(param, Constants[k]), k + 1)
              IN  [rest EXCEPT !.constant_params = <<Constants[k]>> \o @]
         ELSE remove_constants(param, k + 1)

\* OpenDataInput.pl_load_source
pl_load_source(inp, kwargs, lacks, more) ==
    LET a == adjust(kwargs)
    IN  IF a.raised # "" THEN AdjustRaised(inp, "pl_load_source", kwargs, a)
        ELSE LET k1 == Update(a.kwargs, [levtype |-> "pl"])
                 param == lowered(k1.param)
                 has_z == "z" \in set(param)
                 without_z == remove(param, "z")
                 k2 == IF has_z
                       THEN Update(k1, [param |-> IF "gh" \in set(without_z) THEN without_z
                                                  ELSE Append(without_z, "gh")])
                       ELSE k1
                 gh_to_z == IF has_z THEN "make_z_from_gh" ELSE "_identity"
                 log == a.log
                          \o (IF has_z
                              THEN <<LogRecord("warning", "Parameter 'z' on pressure levels is not available in ECMWF open data, using 'gh' instead", <<>>)>>
                              ELSE <<>>)
                          \o <<LogRecord("info", "ecmwf-open-data %s", k2.param)>>
                 stages == pl_stages(from_source_opendata(k2, lacks, more), gh_to_z, a.interpolate)
             IN  Checked(inp, "pl_load_source", kwargs, k1, k2, <<>>, log, stages,
                         check_pl(stages[Len(stages)].gave, k1))

\* OpenDataInput.sfc_load_source
sfc_load_source(inp, kwargs, lacks, more) ==
    LET a == adjust(kwargs)
    IN  IF a.raised # "" THEN AdjustRaised(inp, "sfc_load_source", kwargs, a)
        ELSE LET k1 == Update(a.kwargs, [levtype |-> "sfc"])
                 removed == remove_constants(lowered(k1.param), 1)
                 c == IF removed.constant_params # <<>>
                      THEN constants(removed.constant_params, k1, k1, inp.cached)
                      ELSE [log |-> <<>>, downloads |-> <<>>, fields |-> <<>>]
                 k2 == Update(k1, [param |-> removed.param])
                 stages == sfc_stages(from_source_opendata(k2, lacks, more), c.fields, a.interpolate)
             IN  Checked(inp, "sfc_load_source", kwargs, k1, k2, c.downloads, a.log \o c.log, stages,
                         check_sfc(stages[Len(stages)].gave, k1))

\* OpenDataInput.ml_load_source
ml_load_source(inp, kwargs, lacks, more) ==
    LET a == adjust(kwargs)
    IN  IF a.raised # "" THEN AdjustRaised(inp, "ml_load_source", kwargs, a)
        ELSE LET k1 == Update(a.kwargs, [levtype |-> "ml"])
                 stages == ml_stages(from_source_opendata(k1, lacks, more), a.interpolate)
             IN  Checked(inp, "ml_load_source", kwargs, k1, k1, <<>>, a.log, stages,
                         check_ml(stages[Len(stages)].gave, k1))

(* ------------------------------------------------------------------ *)
(* The input as a state machine                                        *)
(* ------------------------------------------------------------------ *)

\* the grids of the models: two of RESOLS and one that is not there
Grids == { <<"0.25", "0.25">>, <<"0.1", "0.1">>, <<"0.5", "0.5">> }

\* what fields_pl and fields_ml hand over
LevelKwargs ==
    { [date |-> 20240101, time |-> 6, param |-> p, level |-> l, grid |-> g,
       area |-> <<90, 0, -90, 360>>] :
         p \in { <<"t", "u">>, <<"t", "z">>, <<"z", "gh">>, <<"T">> },
         l \in { <<500>>, <<500, 850>> },
         g \in Grids }

\* what fields_sfc hands over, with the step of the model's retrieve or
\* without
SfcKwargs ==
    { [date |-> 20240101, time |-> 6, param |-> p, grid |-> g,
       area |-> <<90, 0, -90, 360>>] @@ s :
         p \in { <<"2t", "msl">>, <<"2t", "z">>, <<"lsm", "sdor", "2t", "slor", "z">>, <<"2T", "Z">> },
         g \in Grids,
         s \in { EmptyDict, [step |-> 6] } }

\* what the open data may lack of a request, and what they may give
\* unasked
Lacks(kwargs) ==
    SUBSET (1..(Len(kwargs.param) * (IF HasKey(kwargs, "level") THEN Len(kwargs.level) ELSE 1)))

Mores(kwargs) ==
    { <<>>, <<[param |-> "v", levelist |-> IF HasKey(kwargs, "level") THEN 500 ELSE 0]>> }

PlLoadSource ==
    /\ input.pc = "init"
    /\ \E kwargs \in LevelKwargs : \E lacks \in Lacks(kwargs), more \in Mores(kwargs) :
          input' = pl_load_source(input, kwargs, lacks, more)
    /\ UNCHANGED <<run, twin, model, fields, output>>

SfcLoadSource ==
    /\ input.pc = "init"
    /\ \E kwargs \in SfcKwargs : \E lacks \in Lacks(kwargs), more \in Mores(kwargs) :
          input' = sfc_load_source(input, kwargs, lacks, more)
    /\ UNCHANGED <<run, twin, model, fields, output>>

MlLoadSource ==
    /\ input.pc = "init"
    /\ \E kwargs \in LevelKwargs : \E lacks \in Lacks(kwargs), more \in Mores(kwargs) :
          input' = ml_load_source(input, kwargs, lacks, more)
    /\ UNCHANGED <<run, twin, model, fields, output>>

OpenDataNext == PlLoadSource \/ SfcLoadSource \/ MlLoadSource

(* ------------------------------------------------------------------ *)
(* FileOutputBase and HindcastReLabel                                  *)
(* ------------------------------------------------------------------ *)

\* the values of a field: numbers, nan, inf and -inf
Finite(n) == [kind |-> "finite", n |-> n]

NaN == [kind |-> "nan", n |-> 0]

Inf == [kind |-> "inf", n |-> 0]

\* data, or None
Data(values) == [none |-> FALSE, values |-> values]

NoData == [none |-> TRUE, values |-> <<>>]

\* np.isnan(data).any() and np.isinf(data).any()
isnan_any(data) == \E k \in 1..Len(data.values) : data.values[k].kind = "nan"

isinf_any(data) == \E k \in 1..Len(data.values) : data.values[k].kind = "inf"

\* the keys of FileOutputBase.grib_keys
GribKeys == {"edition", "generatingProcessIdentifier", "stream", "expver", "class"}

\* lines 75-78
ignore(kwargs) ==
    IF ~HasKey(kwargs, "expver")
    THEN {"template", "expver", "class", "type", "stream"}
    ELSE {"template"}

\* self.output.write of line 62: the encoder takes the data and gives a
\* handle and a path, or raises (accepts); in the handle the keys of
\* differs are not as they were given
encoder_write(data, kwargs, accepts, differs) ==
    IF accepts
    THEN Return([handle |-> [differs |-> differs], path |-> "output.grib"])
    ELSE Raised("Exception")

\* FileOutputBase.write with every error of the encoder passed on
WriteReraising(data, kwargs, checking, accepts, differs) ==
    LET written == encoder_write(data, kwargs, accepts, differs)
    IN  IF written.raised # "" THEN written
        ELSE IF checking /\ ((GribKeys \cup DOMAIN kwargs) \ ignore(kwargs)) \cap differs # {}
        THEN Raised("AssertionError")
        ELSE written

\* FileOutputBase.write(data, check=checking, **kwargs)
file_write(data, kwargs, checking, accepts, differs) ==
    LET written == encoder_write(data, kwargs, accepts, differs)
    IN  IF written.raised # ""
        THEN IF ~data.none /\ isnan_any(data)
             THEN RaisedWith("ValueError", "NaN values found in field.")
             ELSE IF ~data.none /\ isinf_any(data)
             THEN RaisedWith("ValueError", "Infinite values found in field.")
             ELSE written
        ELSE IF checking /\ ((GribKeys \cup DOMAIN kwargs) \ ignore(kwargs)) \cap differs # {}
        THEN Raised("AssertionError")
        ELSE written

\* lines 132-136 and 146-150 with the year put before the whole date
ReferenceDateWholeDate(out, date) ==
    IF out.hindcast_reference_date # {}
    THEN CHOOSE d \in out.hindcast_reference_date : TRUE
    ELSE (CHOOSE y \in out.hindcast_reference_year : TRUE) * 10000 + date

\* lines 132-136 and 146-150
reference_date(out, date) ==
    IF out.hindcast_reference_date # {}
    THEN CHOOSE d \in out.hindcast_reference_date : TRUE
    ELSE (CHOOSE y \in out.hindcast_reference_year : TRUE) * 10000 + (date % 10000)

\* the output: a FileOutput under a HindcastReLabel with its reference
\* year and date (each a number or None), the call made, the warnings,
\* what the encoder was handed, and what the call gave
NewOutput(year, date) ==
    [ pc |-> "init",
      hindcast_reference_year |-> year,
      hindcast_reference_date |-> date,
      call |-> "",
      data |-> NoData,
      kwargs |-> EmptyDict,
      accepts |-> FALSE,
      warnings |-> <<>>,
      encoded |-> <<>>,
      result |-> Return(<<>>) ]

NoOutput == NewOutput({}, {})

\* the encoder is handed the data when the call comes to line 62
Wrote(out, call, data, kwargs, accepts, warned, encoded, res) ==
    [out EXCEPT !.pc = "returned", !.call = call, !.data = data, !.kwargs = kwargs,
                !.accepts = accepts,
                !.warnings = warned, !.encoded = encoded, !.result = res]

\* HindcastReLabel.write(data, **kwargs)
hindcast_write(out, data, kwargs, accepts, differs) ==
    LET warned == (IF HasKey(kwargs, "hdate") THEN <<"Ignoring hdate in HindcastReLabel">> ELSE <<>>)
                    \o (IF HasKey(kwargs, "date") THEN <<"Ignoring date in HindcastReLabel">> ELSE <<>>)
        k1 == pop(pop(kwargs, "hdate"), "date")
        date == k1.template.date
        hdate == k1.template.hdate
        referenceDate == reference_date(out, date)
    IN  IF hdate # {} /\ date # referenceDate
        THEN Wrote(out, "HindcastReLabel.write", data, kwargs, accepts, warned, <<>>, Raised("AssertionError"))
        ELSE LET k2 == Update(k1, [referenceDate |-> referenceDate,
                                   hdate |-> IF hdate # {} THEN CHOOSE h \in hdate : TRUE ELSE date])
                 checking == Get(k2, "check", TRUE)
                 k3 == pop(k2, "check")
             IN  Wrote(out, "HindcastReLabel.write", data, kwargs, accepts, warned,
                       <<[data |-> data, kwargs |-> k3]>>,
                       file_write(data, k3, checking, accepts, differs))

(* ------------------------------------------------------------------ *)
(* The output as a state machine                                       *)
(* ------------------------------------------------------------------ *)

\* the fields written
Datas ==
    { NoData, Data(<<Finite(1), Finite(2)>>), Data(<<Finite(1), NaN>>),
      Data(<<Inf, Finite(2)>>), Data(<<NaN, Inf>>) }

\* the templates: date and hdate (None for a field that is no hindcast)
Templates ==
    { [date |-> d, hdate |-> h] : d \in {20240115, 20200115}, h \in Opt({20200115, 20180115}) }

\* what the model gives besides the template
WriteKwargs ==
    { EmptyDict, [step |-> 6], [hdate |-> 20190101, date |-> 20190101], [check |-> FALSE] }

\* the keys that the handle may hold otherwise than given
Differs == { {}, {"hdate"}, {"expver"} }

HindcastWrite ==
    /\ output.pc = "init"
    /\ output.hindcast_reference_year # {} \/ output.hindcast_reference_date # {}
    /\ \E data \in Datas, template \in Templates, kwargs \in WriteKwargs,
          accepts \in BOOLEAN, differs \in Differs :
          output' = hindcast_write(output, data, Update(kwargs, [template |-> template]),
                                   accepts, differs)
    /\ UNCHANGED <<run, twin, model, fields, input>>

FileWrite ==
    /\ output.pc = "init"
    /\ \E data \in Datas, template \in Templates, kwargs \in WriteKwargs \cup {[expver |-> "0001"]},
          checking \in BOOLEAN, accepts \in BOOLEAN, differs \in Differs :
          LET k == Update(pop(kwargs, "check"), [template |-> template])
          IN  output' = Wrote(output, "FileOutputBase.write", data, k, accepts, <<>>,
                              <<[data |-> data, kwargs |-> k]>>,
                              file_write(data, k, checking, accepts, differs))
    /\ UNCHANGED <<run, twin, model, fields, input>>

OutputNext == HindcastWrite \/ FileWrite

(* ------------------------------------------------------------------ *)
(* run of __main__.py: what a run does to the network and the files    *)
(* ------------------------------------------------------------------ *)

\* what a part of the run did, in order, and how it ended ("" when it
\* went through)
Did(events, raised) == [events |-> events, raised |-> raised]

\* a then b: b is not come to when a raised
Then(a, b) == IF a.raised # "" THEN a ELSE Did(a.events \o b.events, b.raised)

\* the model of the run for Model.datetimes
ModelOf(cfg) ==
    ModelWith(cfg.date, cfg.time, cfg.lagged, cfg.staging_dates, cfg.param_sfc,
              "all", FALSE, EmptyDict, EmptyDict)

\* self.owner.datetimes() with the date-times checked when the model is made
DatetimesCheckedBefore(cfg) == Did(<<>>, "")

\* self.owner.datetimes(): the staging file is read when there is one
owner_datetimes(cfg) ==
    Did(IF cfg.staging_dates # {} THEN <<"open staging dates">> ELSE <<>>,
        datetimes(ModelOf(cfg), 0).raised)

\* Model.download_assets, called by Model.__init__ (missing: an asset is
\* not there yet)
download_assets(cfg, missing) ==
    Did(IF cfg.download_assets /\ missing
        THEN <<"makedirs assets", "download asset", "rename asset">> ELSE <<>>, "")

\* Model.__init__
model_init(cfg, missing) == download_assets(cfg, missing)

\* RemoteModel.__init__: the configuration of RemoteAPI, the models and
\* the metadata are asked for, and then Model.__init__ without assets
remote_model_init(cfg, available) ==
    Then(Did(<<"read api.yaml", "GET models">>, IF available THEN "" ELSE "SystemExit"),
         Then(Did(<<"POST metadata">>, ""),
              model_init([cfg EXCEPT !.download_assets = FALSE], FALSE)))

\* RequestBasedInput.all_fields and FileInput.all_fields: the fields of
\* a file, or for each kind of field that the model has the date-times
\* and then the retrieval
all_fields(cfg) ==
    IF cfg.input = "file" THEN Did(<<"read input file">>, "")
    ELSE IF cfg.param_sfc = <<>> THEN Did(<<>>, "")
    ELSE Then(owner_datetimes(cfg), Did(<<"retrieve">>, ""))

\* Model.print_requests: _requests, which starts with the date-times
print_requests(cfg) == Then(owner_datetimes(cfg), Did(<<"print requests">>, ""))

\* run of the model: the fields first (RemoteModel.run saves them in a
\* temporary directory and runs them through the server)
model_run(cfg) ==
    IF cfg.remote_execution
    THEN Then(Did(<<"mkdtemp">>, ""),
              Then(all_fields(cfg),
                   Did(<<"save input file", "POST upload", "POST submit", "GET poll",
                         "download output", "read output file", "write output">>, "")))
    ELSE Then(all_fields(cfg), Did(<<"load assets", "write output">>, ""))

\* run(cfg, model_args) of __main__.py
main_run(cfg, available, missing) ==
    Then(IF cfg.remote_execution THEN remote_model_init(cfg, available)
         ELSE model_init(cfg, missing),
         IF cfg.fields THEN Did(<<"print fields">>, "SystemExit")
         ELSE IF cfg.retrieve_requests THEN Then(print_requests(cfg), Did(<<>>, "SystemExit"))
         ELSE IF cfg.assets_list THEN Did(<<"print assets list">>, "SystemExit")
         ELSE model_run(cfg))

\* the events that ask the network or touch a file
IsIO(e) == e \notin {"print fields", "print requests", "print assets list"}

(* ------------------------------------------------------------------ *)
(* The run as a state machine                                          *)
(* ------------------------------------------------------------------ *)

\* the configurations: what to do is one of --fields,
\* --retrieve-requests, --assets-list or the run of the model
Cfgs ==
    { [ remote_execution |-> r, download_assets |-> a, input |-> i,
        date |-> 20231231, time |-> t, lagged |-> <<>>, staging_dates |-> s,
        param_sfc |-> p,
        fields |-> w = "fields", retrieve_requests |-> w = "retrieve_requests",
        assets_list |-> w = "assets_list" ] :
          r \in BOOLEAN, a \in BOOLEAN, i \in {"mars", "file"}, t \in BaseTimes,
          s \in StagingDates, p \in { <<>>, <<"2t", "z">> },
          w \in {"fields", "retrieve_requests", "assets_list", "run"} }

NewMain(cfg) == [pc |-> "init", cfg |-> cfg, events |-> <<>>, raised |-> ""]

MainRun ==
    /\ model.pc = "init"
    /\ \E available \in BOOLEAN, missing \in BOOLEAN :
          LET did == main_run(model.cfg, available, missing)
          IN  model' = [model EXCEPT !.pc = "done", !.events = did.events, !.raised = did.raised]
    /\ UNCHANGED <<run, twin, fields, input, output>>

MainNext == MainRun

Init ==
    /\ run = NewRun("idle")
    /\ twin = NewRun("idle")
    /\ input = NoInput
    /\ output = NoOutput
    /\ fields = NoFields
    /\ model = NewModel(FALSE, FALSE, <<>>)

Next == RemoteNext

Spec == Init /\ [][Next]_vars

SpecTwin == Init /\ [][TwinNext]_vars

InitArchive ==
    /\ run = NewRun("idle")
    /\ twin = NewRun("idle")
    /\ input = NoInput
    /\ output = NoOutput
    /\ fields = NoFields
    /\ model \in { NewModel(a, j, e) : a \in BOOLEAN, j \in BOOLEAN, e \in RequestsExtras }

SpecArchive == InitArchive /\ [][ArchiveNext]_vars

InitRequests ==
    /\ run = NewRun("idle")
    /\ twin = NewRun("idle")
    /\ input = NoInput
    /\ output = NoOutput
    /\ fields = NoFields
    /\ model \in { ModelWith(d, t, l, s, p, f, o, re[1], re[2]) :
                      d \in BaseDates, t \in BaseTimes, l \in Laggeds, s \in StagingDates,
                      p \in ParamSfcs, f \in {"all", "constants", "prognostics"},
                      o \in BOOLEAN, re \in RetrieveAndExtras }

SpecRequests == InitRequests /\ [][RequestsNext]_vars

InitFields ==
    /\ run = NewRun("idle")
    /\ twin = NewRun("idle")
    /\ input = NoInput
    /\ output = NoOutput
    /\ model = NewModel(FALSE, FALSE, <<>>)
    /\ fields \in { FieldsOf(l) : l \in FieldLists(MaxFields) }

SpecFields == InitFields /\ [][FieldsNext]_vars

InitOpenData ==
    /\ run = NewRun("idle")
    /\ twin = NewRun("idle")
    /\ model = NewModel(FALSE, FALSE, <<>>)
    /\ fields = NoFields
    /\ output = NoOutput
    /\ input \in { NewInput(cached) : cached \in BOOLEAN }

SpecOpenData == InitOpenData /\ [][OpenDataNext]_vars

InitOutput ==
    /\ run = NewRun("idle")
    /\ twin = NewRun("idle")
    /\ model = NewModel(FALSE, FALSE, <<>>)
    /\ fields = NoFields
    /\ input = NoInput
    /\ output \in { NewOutput(y, d) : y \in Opt({2024, 2021}), d \in Opt({20240115}) }

SpecOutput == InitOutput /\ [][OutputNext]_vars

InitMain ==
    /\ run = NewRun("idle")
    /\ twin = NewRun("idle")
    /\ fields = NoFields
    /\ input = NoInput
    /\ output = NoOutput
    /\ model \in { NewMain(cfg) : cfg \in Cfgs }

SpecMain == InitMain /\ [][MainNext]_vars

(* ------------------------------------------------------------------ *)
(* Properties of the remote client                                     *)
(* ------------------------------------------------------------------ *)

\* the calls that have ended: sys.exit(1), an uncaught exception, the
\* end of run, the return of metadata, models or patch_retrieve_request
Terminal == {"exit", "raise", "done", "returned"}

\* the step r -> r2 sent one HTTP request
Sent(r, r2) == Len(r2.reqs) = Len(r.reqs) + 1

\* the status a JSON response carries, lower-cased (none: the empty set)
ResponseStatus(response) ==
    IF response.kind = "dict" /\ HasKey(response.dict, "status")
    THEN {Lower(response.dict["status"])} ELSE {}

\* the log events the step r -> r2 added
NewEvents(r, r2) == {r2.log[i] : i \in (Len(r.log) + 1)..Len(r2.log)}

\* href joined to the base url of the client
JoinedToBase(r, href) ==
    IF href.origin = "" THEN [origin |-> r.url, path |-> href.path] ELSE href

\* C1: when a poll is answered ready, the run goes on to the download;
\* the only download of a run is made in the step after the ready
\* response, of the href of that response joined to the base url, to the
\* configured output file, and nothing follows it.
C1_OneDownloadAtReadyHref ==
    [][ /\ ( run.pc = "poll" /\ Sent(run, run') /\ ResponseStatus(run'.response) = {"ready"}
              => run'.pc = "download" /\ run'.downloads = <<>> )
        /\ ( run.pc = "download" /\ HasKey(run.response.dict, "href")
              => /\ run'.pc = "done"
                 /\ run'.reqs = run.reqs
                 /\ run'.downloads =
                      << [url |-> JoinedToBase(run, run.response.dict["href"]),
                          target |-> run.output_file] >> )
        /\ ( run'.downloads # run.downloads
              => /\ run.pc = "download" /\ run.downloads = <<>>
                 /\ ResponseStatus(run.response) = {"ready"} )
        /\ ( run.pc = "done" => run' = run )
      ]_vars

\* C1 witness: queued, running, ready has been answered and the result
\* downloaded from a relative href
C1_Witness ==
    /\ run.pc = "done"
    /\ run.sleeps = 2
    /\ run.last_status = "running"
    /\ Len(run.downloads) = 1
    /\ run.downloads[1].url.origin = API_URL

\* C2: a poll answered failed (in any spelling) ends the run with exit:
\* no download has been or will be made and nothing is requested after it.
C2_FailedAborts ==
    [][ /\ ( run.pc = "poll" /\ Sent(run, run') /\ ResponseStatus(run'.response) = {"failed"}
              => run'.pc = "exit" /\ run'.downloads = <<>> )
        /\ ( run.pc = "exit" => run' = run )
      ]_vars

\* C2 witness: failed arrived after polls that were not terminal
C2_Witness ==
    /\ run.pc = "exit"
    /\ run.sleeps = 2
    /\ ResponseStatus(run.response) = {"failed"}
    /\ run.response.dict["status"] = "Failed"
    /\ run.downloads = <<>>

IsUpload(req) == req = [method |-> "POST", url |-> [origin |-> API_URL, path |-> "upload"]]

\* C3: the first request of a run is the upload; submit is sent only from
\* an upload answered success and POSTs to the href of that answer;
\* polls are GETs sent only after a submit answered queued; a download
\* is made only after the polls; any other answer to upload or submit
\* ends the run, and nothing follows the end of a run.
C3_ProtocolOrder ==
    [][ /\ ( run.pc \in Terminal => run' = run )
        /\ ( Sent(run, run') /\ IsUpload(run'.reqs[Len(run'.reqs)])
              => /\ run.reqs = <<>>
                 /\ run'.pc = "uploaded" => ResponseStatus(run'.response) = {"success"}
                 /\ run'.pc # "uploaded" => run'.pc \in Terminal )
        /\ ( run.pc = "uploaded" /\ Sent(run, run')
              => /\ ResponseStatus(run.response) = {"success"}
                 /\ Len(run.reqs) = 1
                 /\ run'.reqs[2] = [method |-> "POST",
                                     url |-> JoinedToBase(run, run.response.dict["href"])]
                 /\ run'.pc = "poll" => ResponseStatus(run'.response) = {"queued"}
                 /\ run'.pc # "poll" => run'.pc \in Terminal )
        /\ ( run.pc = "uploaded" => run'.pc \in {"poll"} \cup Terminal )
        /\ ( run.pc = "poll" /\ Sent(run, run')
              => /\ Len(run.reqs) >= 2
                 /\ run'.reqs[Len(run'.reqs)].method = "GET"
                 /\ run'.pc \in {"poll", "download"} \cup Terminal )
        /\ ( run'.downloads # run.downloads
              => run.pc = "download" /\ Len(run.reqs) >= 3 /\ run'.reqs = run.reqs )
        /\ ( run.pc = "download" => run'.pc \in Terminal )
      ]_vars

\* C3 witness: an upload answered queued, not success, ended the run
\* after that one request
C3_Witness ==
    /\ run.pc = "exit"
    /\ Len(run.reqs) = 1
    /\ IsUpload(run.reqs[1])
    /\ ResponseStatus(run.response) = {"queued"}

Unauthorized401 == Error("Unauthorized Access. Check your token.", "")

\* C4: a request answered 401 ends the call with exit in that step: the
\* caller's data, result and last_status are untouched, the only error
\* logged is the unauthorized one (none of the status branches ran), no
\* download is made, and nothing is requested after the exit.
C4_UnauthorizedIsFatal ==
    [][ /\ ( Sent(run, run') /\ run'.response.status_code = 401
              => /\ run'.pc = "exit"
                 /\ run'.data = run.data
                 /\ run'.result = run.result
                 /\ run'.last_status = run.last_status
                 /\ run'.downloads = run.downloads
                 /\ run'.sleeps = run.sleeps
                 /\ Unauthorized401 \in NewEvents(run, run')
                 /\ \A e \in NewEvents(run, run') :
                       e.level = "error" => e = Unauthorized401 )
        /\ ( run.pc = "exit" => run' = run )
      ]_vars

\* C4 witness: a poll was answered 401 after an earlier poll
C4_Witness ==
    /\ run.pc = "exit"
    /\ run.response.status_code = 401
    /\ run.sleeps >= 1
    /\ run.log[Len(run.log)] = Unauthorized401

\* a protocol error: a body that is not JSON, under any code but 401
IsProtocolError(response) ==
    response.kind = "text" /\ response.status_code \notin {0, 401}

\* C5 (for a body that is not JSON): a poll answered with a protocol
\* error leaves the run polling, with the error as its logged status,
\* and the next step of the run is a further poll.
C5_ProtocolErrorKeepsPolling ==
    [][ /\ ( run.pc = "poll" /\ Sent(run, run') /\ IsProtocolError(run'.response)
              => /\ HasKey(run'.data, "status")
                 /\ run'.data["status"] # "failed"
                 /\ Info("Request is %s", run'.data["status"]) \in NewEvents(run, run')
                 /\ run'.pc = "poll" )
        /\ ( run.pc = "poll" /\ IsProtocolError(run.response) /\ run' # run
              => Sent(run, run') /\ run'.reqs[Len(run'.reqs)].method = "GET" )
      ]_vars

\* the step run -> run' is a poll whose response carries a status
PollGotStatus ==
    /\ run.pc = "poll" /\ Sent(run, run')
    /\ run'.response.status_code # 401
    /\ run'.response.kind # "list"
    /\ HasKey(run'.data, "status")

RequestIs(status) == Info("Request is %s", status)

\* C6 as stated: a poll step logs "Request is <status>" exactly when the
\* status differs from the status of the previous response.
C6_RequestIsOnEveryTransition ==
    [][ PollGotStatus
        => ( RequestIs(run'.data["status"]) \in NewEvents(run, run')
               <=> run'.data["status"] # run.data["status"] )
      ]_vars

\* C6 amended: as stated for every status but failed; a failed response
\* is reported by the error event "Request failed" and by no
\* "Request is" event.  A step logs at most one status event, so the
\* events counted over a run are the transitions of the run.
C6_StatusEventOnEveryTransition ==
    [][ PollGotStatus
        => LET s == run'.data["status"]
               events == {e \in NewEvents(run, run') : e.msg = "Request is %s"}
           IN  IF s = "failed"
               THEN /\ Error("Request failed", "") \in NewEvents(run, run')
                    /\ events = {}
                    /\ s # run.data["status"]
               ELSE /\ events \subseteq {RequestIs(s)}
                    /\ events # {} <=> s # run.data["status"]
                    /\ Len(run'.log) <= Len(run.log) + 1
      ]_vars

\* C6 witness: two polls, one that changed the status and one that
\* repeated it: two "Request is" events in all, with the one of submit
C6_Witness ==
    /\ run.pc = "poll"
    /\ run.sleeps = 2
    /\ run.last_status = "running"
    /\ Cardinality({i \in 1..Len(run.log) : run.log[i].msg = "Request is %s"}) = 2

\* what a run did that the server or the caller can observe
Control(r) ==
    [pc |-> r.pc, reqs |-> r.reqs, downloads |-> r.downloads,
     sleeps |-> r.sleeps, error |-> r.error]

\* C7: two runs whose poll responses agree on everything but the progress
\* block send the same requests, end the same way and download the same
\* URL.
C7_ProgressNeverControls == Control(run) = Control(twin)

\* C7 witness: the runs ended with a download after polls that showed
\* them different progress
C7_Witness ==
    /\ run.pc = "done" /\ twin.pc = "done"
    /\ run.sleeps = 1
    /\ run.pbar # twin.pbar
    /\ run.pbar # <<>> /\ twin.pbar = <<>>

(* ------------------------------------------------------------------ *)
(* Archive bookkeeping: claims                                         *)
(* ------------------------------------------------------------------ *)

ClaimedUnique == {"date", "hdate", "time", "referenceDate", "type", "stream", "expver"}

\* the value set the collector of path holds for key k
Recorded(m, path, k) ==
    IF HasPath(m.archiving, path)
    THEN Get(m.archiving[Index(m.archiving, path)].archive.request, k, {})
    ELSE {}

RecordedKeys(m, path) ==
    IF HasPath(m.archiving, path)
    THEN DOMAIN m.archiving[Index(m.archiving, path)].archive.request
    ELSE {}

\* the fields written to path so far
WrittenTo(m, path) == {i \in 1..Len(m.written) : m.written[i].path = path}

\* the strings seen for key k in the fields written to path
Seen(m, path, k) ==
    { str(m.written[i].field[j][2]) :
        <<i, j>> \in { x \in WrittenTo(m, path) \X (1..3) :
                         x[2] <= Len(m.written[x[1]].field)
                         /\ m.written[x[1]].field[x[2]][1] = k } }

SeenKeys(m, path) ==
    { m.written[x[1]].field[x[2]][1] :
        x \in { y \in WrittenTo(m, path) \X (1..3) : y[2] <= Len(m.written[y[1]].field) } }

IsWrite(m, m2) == m.archive_requests /\ Len(m2.written) = Len(m.written) + 1

LastWritten(m) == m.written[Len(m.written)]

\* the items of the field whose unique key already has another value
Conflicts(m, path, field) ==
    { j \in 1..Len(field) :
        /\ field[j][1] \in ClaimedUnique
        /\ Recorded(m, path, field[j][1]) # {}
        /\ str(field[j][2]) \notin Recorded(m, path, field[j][1]) }

IsFinalise(m, m2) == m.archive_requests /\ m.pc = "running" /\ m2.pc = "finalised"

Extras(m) == requests_extra_dict(m.requests_extra)

C9_RecordedIsSeen ==
    [][ /\ (IsWrite(model, model') /\ Conflicts(model, LastWritten(model').path,
                                                 LastWritten(model').field) = {})
              => model'.pc = "running"
        /\ (model'.archive_requests /\ model'.pc = "running") =>
              /\ {model'.archiving[i].path : i \in 1..Len(model'.archiving)}
                    = {model'.written[i].path : i \in 1..Len(model'.written)}
              /\ \A path \in Paths :
                    /\ RecordedKeys(model', path) = SeenKeys(model', path)
                    /\ \A k \in SeenKeys(model', path) :
                          Recorded(model', path, k) = Seen(model', path, k)
        /\ IsFinalise(model, model') =>
              \A i \in 1..Len(model.archiving) :
                  \A k \in DOMAIN model.archiving[i].archive.request \ DOMAIN Extras(model) :
                      LET S == model.archiving[i].archive.request[k]
                      IN  model'.emitted[i][k] =
                             IF Cardinality(S) = 1 THEN StrV(CHOOSE x \in S : TRUE)
                             ELSE IF model.json THEN ListV(S) ELSE JoinedV(S)
      ]_vars

C9_Witness ==
    /\ model.pc = "finalised"
    /\ model.json
    /\ Len(model.written) = 2
    /\ model.written[1] = [path |-> {"out.grib"},
                           field |-> << <<"date", IntV(20230101)>>, <<"param", StrV("2t")>> >>]
    /\ model.written[2] = [path |-> {"out.grib"},
                           field |-> << <<"date", StrV("20230101")>>, <<"param", StrV("z")>> >>]
    /\ Len(model.emitted) = 1
    /\ model.emitted[1].param = ListV({"2t", "z"})
    /\ model.emitted[1].date = StrV("20230101")

\* what finalise emits apart from the expect value: one request per
\* path written to, holding every accumulated key, the extras winning;
\* and a write to one path leaves the collectors of the others alone
EmitsOnePerPath ==
    /\ IsFinalise(model, model') =>
          /\ Len(model'.emitted) = Cardinality({model.written[i].path : i \in 1..Len(model.written)})
          /\ \A i \in 1..Len(model.archiving) :
                /\ \A j \in 1..Len(model.archiving) :
                      model.archiving[i].path = model.archiving[j].path => i = j
                /\ DOMAIN model.archiving[i].archive.request \subseteq DOMAIN model'.emitted[i]
                /\ \A k \in DOMAIN Extras(model) :
                      model'.emitted[i][k] = StrV(Extras(model)[k])
    /\ IsWrite(model, model') =>
          \A i \in 1..Len(model.archiving) :
              model.archiving[i].path # LastWritten(model').path
                 => model'.archiving[i] = model.archiving[i]

\* the expect value emitted for the i-th path is the number of fields
\* written to it
ExpectIsCount(i) ==
    str(model'.emitted[i].expect)
        = ToString(Cardinality(WrittenTo(model, model.archiving[i].path)))

\* C10 as stated: finalise emits one request per path written to, with
\* expect the number of fields written to the path, every accumulated
\* key, and the extras' value for every key of the extras; a write to
\* one path changes nothing of another.
C10_ExpectAlwaysCount ==
    [][ /\ EmitsOnePerPath
        /\ IsFinalise(model, model') =>
              \A i \in 1..Len(model.archiving) : ExpectIsCount(i)
      ]_vars

\* C10, amended: as stated, the expect value being the number of fields
\* written to the path unless the extras give expect, whose value then
\* wins as for any other key.
C10_ExpectIsCountUnlessExtra ==
    [][ /\ EmitsOnePerPath
        /\ (IsFinalise(model, model') /\ "expect" \notin DOMAIN Extras(model)) =>
              \A i \in 1..Len(model.archiving) : ExpectIsCount(i)
      ]_vars

C10_Witness ==
    /\ model.pc = "finalised"
    /\ model.archive_requests
    /\ Len(model.emitted) = 2
    /\ "date" \in DOMAIN Extras(model)
    /\ \E i \in 1..2 : /\ model.emitted[i].expect = IntV(2)
                        /\ "source" \in DOMAIN model.emitted[i]
                        /\ model.emitted[i].date = StrV("20250101")
                        /\ model.emitted[3 - i].expect = IntV(1)
                        /\ "source" \notin DOMAIN model.emitted[3 - i]

(* ------------------------------------------------------------------ *)
(* Properties of the request builder                                   *)
(* ------------------------------------------------------------------ *)

\* the call ended by returning
ReturnedFrom(call) == model.pc = "returned" /\ model.call = call

\* the (date, time) pairs of datetimes()
Pairs == datetimes(model, 0).value

SharedKeys == {"target", "grid", "area"} \cup DOMAIN model.retrieve

\* the request carries the shared keys with the values of the model,
\* but for those that --requests-extra replaced
CarriesShared(r) ==
    /\ SharedKeys \subseteq DOMAIN r
    /\ \A k \in SharedKeys \ DOMAIN Extras(model) :
          r[k] = CASE k = "target" -> "input.grib"
                   [] k = "grid"   -> model.grid
                   [] k = "area"   -> model.area
                   [] OTHER        -> model.retrieve[k]

\* C12 as stated: the first request of _requests_unfiltered carries
\* target, grid, area and the retrieve extras, and no later request,
\* the surface request of the first pair included, has any of these
\* keys.
C12_OnlyFirstRequestShared ==
    ReturnedFrom("_requests_unfiltered") =>
        LET rs == model.result.value
        IN  \A i \in 1..Len(rs) :
                IF i = 1 THEN CarriesShared(rs[i])
                ELSE DOMAIN rs[i] \cap SharedKeys = {}

\* C12, amended: the two requests of the first pair, the pressure-level
\* one and the surface one made from it, carry target, grid, area and
\* the retrieve extras; the requests of every later pair have none of
\* these keys but those that --requests-extra gives to every request.
C12_OnlyFirstPairShared ==
    ReturnedFrom("_requests_unfiltered") =>
        LET rs == model.result.value
        IN  \A i \in 1..Len(rs) :
                IF i <= 2 THEN CarriesShared(rs[i])
                ELSE DOMAIN rs[i] \cap SharedKeys \subseteq DOMAIN Extras(model)

C12_Witness ==
    /\ ReturnedFrom("_requests_unfiltered")
    /\ Len(model.result.value) = 4
    /\ model.requests_extra = <<>>
    /\ model.retrieve = [class |-> "ea"]
    /\ model.result.value[2]["levtype"] = "sfc"
    /\ model.result.value[2]["target"] = "input.grib"
    /\ model.result.value[2]["class"] = "ea"
    /\ DOMAIN model.result.value[3] = {"levtype", "levelist", "param", "date", "time"}
    /\ DOMAIN model.result.value[4] = {"levtype", "param", "date", "time"}

\* what _requests_unfiltered gives for the model
Unfiltered == requests_unfiltered(model).value

\* the greatest pair of datetimes(), by date and then by time
LatestPair ==
    CHOOSE p \in set(Pairs) :
        \A q \in set(Pairs) : q[1] < p[1] \/ (q[1] = p[1] /\ q[2] <= p[2])

\* the request passes the filter of --retrieve-only-one-date, if set
IsLatest(u) ==
    model.retrieve_only_one_date => <<u["date"], u["time"]>> = LatestPair

\* the j-th smallest of a set of indices
Nth(S, j) == CHOOSE i \in S : Cardinality({k \in S : k <= i}) = j

\* r is u with its param narrowed to the set params
Narrowed(r, u, params) ==
    /\ DOMAIN r = DOMAIN u
    /\ \A k \in DOMAIN u \ {"param"} : r[k] = u[k]
    /\ r["param"] = params

ConstantParams == set(model.constant_fields)

\* C13: with the filter constants, _requests keeps exactly the requests
\* with levtype sfc whose param has an item in the constant fields (and
\* that are of the latest date, if only one date is asked for), in
\* their order, each with its param narrowed to the items that are
\* constant fields and nothing else changed; the others are dropped.
C13_ConstantsKeepsSurfaceIntersection ==
    (ReturnedFrom("_requests") /\ model.retrieve_fields_type = "constants") =>
        LET rs   == model.result.value
            kept == { i \in 1..Len(Unfiltered) :
                        /\ Unfiltered[i]["levtype"] = "sfc"
                        /\ set(Unfiltered[i]["param"]) \cap ConstantParams # {}
                        /\ IsLatest(Unfiltered[i]) }
        IN  /\ Len(rs) = Cardinality(kept)
            /\ \A j \in 1..Len(rs) :
                  /\ rs[j]["levtype"] = "sfc"
                  /\ Narrowed(rs[j], Unfiltered[Nth(kept, j)],
                              set(Unfiltered[Nth(kept, j)]["param"]) \cap ConstantParams)

C13_Witness ==
    /\ ReturnedFrom("_requests")
    /\ model.retrieve_fields_type = "constants"
    /\ ~model.retrieve_only_one_date
    /\ model.param_sfc = <<"2t", "z">>
    /\ Len(Unfiltered) = 4
    /\ Len(model.result.value) = 2
    /\ model.result.value[1]["param"] = {"z"}
    /\ model.result.value[1]["levtype"] = "sfc"

TypeFiltered == requests([model EXCEPT !.retrieve_only_one_date = FALSE]).value

\* C15: with only one date asked for, _requests returns exactly the
\* requests that pass the filter of the type and have the date and time
\* of the greatest pair of datetimes(), in their order; without it and
\* with the type all, it returns the unfiltered requests as they are.
C15_OnlyOneDateKeepsLatest ==
    ReturnedFrom("_requests") =>
        /\ model.retrieve_only_one_date =>
              model.result.value
                 = SelectSeq(TypeFiltered,
                             LAMBDA r : <<r["date"], r["time"]>> = LatestPair)
        /\ (~model.retrieve_only_one_date /\ model.retrieve_fields_type = "all") =>
              model.result.value = Unfiltered

C15_Witness ==
    /\ ReturnedFrom("_requests")
    /\ model.retrieve_only_one_date
    /\ model.retrieve_fields_type = "prognostics"
    /\ model.lagged = <<-6, 0>>
    /\ model.date = 20231231 /\ model.time = 12
    /\ model.param_sfc = <<"2t", "z">>
    /\ Len(TypeFiltered) = 4
    /\ Len(model.result.value) = 2
    /\ model.result.value[1]["levtype"] = "pl"
    /\ model.result.value[2]["param"] = {"2t"}
    /\ \A i \in 1..2 : /\ model.result.value[i]["date"] = 20231231
                       /\ model.result.value[i]["time"] = 12

(* ------------------------------------------------------------------ *)
(* Properties of datetimes                                             *)
(* ------------------------------------------------------------------ *)

\* the lags that count: [0] if the model has none
Lags == IF model.lagged = <<>> THEN <<0>> ELSE model.lagged

\* the base date-times: the lines of the staging file, or the base
\* date and time of the command line
BaseDatetimes ==
    IF model.staging_dates # {} THEN CHOOSE dates \in model.staging_dates : TRUE
    ELSE LET date == resolve_date(model.date)
             time == normalize_time(model.time)
         IN  << datetime(date \div 10000, (date % 10000) \div 100, date % 100,
                         time \div 100, time % 100) >>

\* C16: datetimes returns len(dates) * max(1, len(lagged)) pairs, those
\* of the first base date first, and for each base date those of the
\* lags in the order of the lags; a pair that comes twice is kept
\* twice, and nothing is sorted.
C16_DatetimesLengthAndOrder ==
    ReturnedFrom("datetimes") =>
        LET res == model.result.value
            n   == IF Len(model.lagged) > 1 THEN Len(model.lagged) ELSE 1
        IN  /\ Len(res) = Len(BaseDatetimes) * n
            /\ \A i \in 1..Len(BaseDatetimes) : \A j \in 1..n :
                  res[(i - 1) * n + j]
                     = date_hour(AddHours(BaseDatetimes[i], Lags[j] + model.step))

C16_Witness ==
    /\ ReturnedFrom("datetimes")
    /\ model.staging_dates # {}
    /\ model.lagged = <<-6, 0>>
    /\ model.result.value
         = << <<20231231, 18>>, <<20240101, 0>>, <<20231231, 12>>, <<20231231, 18>>,
              <<20231231, 18>>, <<20240101, 0>> >>

\* C17: a base time below 100 counts as hundred times itself and any
\* other as it is; datetimes fails with an assertion unless that value
\* is 0, 600, 1200 or 1800, and returns if it is (the date being a day
\* that exists, and the step 0 with staging dates); the hour of the
\* pair it returns for the base date-time itself is that of the value
\* (12 for the time 12 as for 1200).
C17_TimeNormalized ==
    (model.call = "datetimes" /\ model.pc \in {"returned", "raised"}) =>
        LET norm == IF model.time < 100 THEN model.time * 100 ELSE model.time
            base == \/ model.staging_dates # {} /\ model.step = 0
                    \/ /\ model.staging_dates = {}
                       /\ \/ model.date <= 0
                          \/ IsDatetime(model.date \div 10000, (model.date % 10000) \div 100,
                                        model.date % 100, 0, 0)
        IN  /\ norm \notin {0, 600, 1200, 1800}
                 => model.pc = "raised" /\ model.result.raised = "AssertionError"
            /\ (norm \in {0, 600, 1200, 1800} /\ base) => model.pc = "returned"
            /\ (model.pc = "returned" /\ model.staging_dates = {}
                  /\ model.step = 0 /\ model.lagged = <<>>)
                 => model.result.value[1][2] * 100 = norm

C17_Witness ==
    /\ model.call = "datetimes" /\ model.pc = "returned"
    /\ model.time = 12
    /\ model.date = 20231231 /\ model.staging_dates = {}
    /\ model.step = 0 /\ model.lagged = <<>>
    /\ model.result.value = << <<20231231, 12>> >>

\* the days of a month of the calendar
MonthLength(y, m) ==
    CASE m \in {4, 6, 9, 11} -> 30
      [] m = 2 -> IF y % 4 = 0 /\ (y % 100 # 0 \/ y % 400 = 0) THEN 29 ELSE 28
      [] OTHER -> 31

\* the date-time one hour later, and one hour earlier
NextHour(d) ==
    IF d.hour < 23 THEN [d EXCEPT !.hour = @ + 1]
    ELSE IF d.day < MonthLength(d.year, d.month) THEN [d EXCEPT !.hour = 0, !.day = @ + 1]
    ELSE IF d.month < 12 THEN [d EXCEPT !.hour = 0, !.day = 1, !.month = @ + 1]
    ELSE [d EXCEPT !.hour = 0, !.day = 1, !.month = 1, !.year = @ + 1]

PrevHour(d) ==
    IF d.hour > 0 THEN [d EXCEPT !.hour = @ - 1]
    ELSE IF d.day > 1 THEN [d EXCEPT !.hour = 23, !.day = @ - 1]
    ELSE IF d.month > 1
         THEN [d EXCEPT !.hour = 23, !.month = @ - 1,
                        !.day = MonthLength(d.year, d.month - 1)]
    ELSE [d EXCEPT !.hour = 23, !.day = 31, !.month = 12, !.year = @ - 1]

\* the date-time h hours after d (before, for h < 0)
RECURSIVE Shifted(_, _)
Shifted(d, h) ==
    IF h = 0 THEN d
    ELSE IF h > 0 THEN Shifted(NextHour(d), h - 1)
    ELSE Shifted(PrevHour(d), h + 1)

\* the base date-times before the step: the lines of the staging file,
\* or the base date (today less -date days if date <= 0) at the base time
CalendarBases ==
    IF model.staging_dates # {} THEN set(CHOOSE dates \in model.staging_dates : TRUE)
    ELSE LET day  == IF model.date <= 0
                     THEN Shifted([utcnow EXCEPT !.hour = 0, !.minute = 0], 24 * model.date)
                     ELSE datetime(model.date \div 10000, (model.date % 10000) \div 100,
                                   model.date % 100, 0, 0)
             time == IF model.time < 100 THEN model.time * 100 ELSE model.time
         IN  { [day EXCEPT !.hour = time \div 100, !.minute = time % 100] }

\* the date-times that the pairs stand for: base plus lag plus step
CalendarDatetimes ==
    { Shifted(b, Lags[j] + model.step) : b \in CalendarBases, j \in 1..Len(Lags) }

YYYYMMDD(d) == d.year * 10000 + d.month * 100 + d.day

\* C18 as stated: the pairs that datetimes returns are, for the base
\* date-times and the lags, (YYYYMMDD, HHMM) of the base date-time plus
\* lag plus step hours.
C18_PairsAreDateAndHHMM ==
    ReturnedFrom("datetimes") =>
        set(model.result.value)
            = { <<YYYYMMDD(d), d.hour * 100 + d.minute>> : d \in CalendarDatetimes }

\* C18, amended: the pairs are (YYYYMMDD, hour): the first component as
\* stated, of the day that the base date-time plus lag plus step hours
\* falls on, the second the hour of that date-time, from 0 to 23 (12
\* for 12:00, 6 for 06:00, 18 for 18:30).
C18_PairsAreDateAndHour ==
    ReturnedFrom("datetimes") =>
        /\ set(model.result.value)
              = { <<YYYYMMDD(d), d.hour>> : d \in CalendarDatetimes }
        /\ \A i \in 1..Len(model.result.value) : model.result.value[i][2] \in 0..23

C18_Witness ==
    /\ ReturnedFrom("datetimes")
    /\ model.staging_dates = {}
    /\ model.date = 0 /\ model.time = 600 /\ model.step = 24
    /\ model.lagged = <<-6, 0>>
    /\ model.result.value = << <<20240302, 0>>, <<20240302, 6>> >>


(* ------------------------------------------------------------------ *)
(* C19                                                                 *)
(* ------------------------------------------------------------------ *)

\* the objects from objs[i] inwards, down to the loaded field
RECURSIVE ChainOf(_, _)
ChainOf(objs, i) ==
    IF objs[i].cls = "Field" THEN <<i>> ELSE <<i>> \o ChainOf(objs, objs[i].field)

\* the places of the chain where key is overridden
OverridingPlaces(objs, chain, key) ==
    {p \in 1..Len(chain) : /\ objs[chain[p]].cls = "NewMetadataField"
                           /\ key \in DOMAIN objs[chain[p]].metadata}

\* what metadata(key) of objs[i] is to give: the outermost override of
\* the chain, and without one what the loaded field has
ExpectedMetadata(objs, i, key) ==
    LET chain == ChainOf(objs, i)
        places == OverridingPlaces(objs, chain, key)
        base == objs[chain[Len(chain)]]
    IN  IF places # {}
        THEN LET p == CHOOSE q \in places : \A r \in places : q <= r
             IN  Return(objs[chain[p]].metadata[key])
        ELSE IF key \in DOMAIN base.metadata THEN Return(base.metadata[key])
        ELSE Raised("KeyError")

\* a metadata(key) of a NewMetadataField gave its override for a key of
\* its overrides, and for another key what the chain under it gives
MetadataAnswered ==
    (fields.last.call = "metadata" /\ fields.objs[fields.last.obj].cls = "NewMetadataField") =>
        LET o == fields.objs[fields.last.obj]
            key == fields.last.key
        IN  /\ key \in DOMAIN o.metadata => fields.last.result = Return(o.metadata[key])
            /\ key \notin DOMAIN o.metadata =>
                  fields.last.result = ExpectedMetadata(fields.objs, o.field, key)
            /\ fields.last.result = ExpectedMetadata(fields.objs, fields.last.obj, key)

\* a to_numpy() of a NewMetadataField gave the values of the first
\* object under it that is not a NewMetadataField
PayloadAnswered ==
    (fields.last.call = "to_numpy" /\ fields.objs[fields.last.obj].cls = "NewMetadataField") =>
        LET chain == ChainOf(fields.objs, fields.last.obj)
            p == CHOOSE q \in 1..Len(chain) :
                    /\ fields.objs[chain[q]].cls # "NewMetadataField"
                    /\ \A r \in 1..(q - 1) : fields.objs[chain[r]].cls = "NewMetadataField"
        IN  fields.last.result = Return(fields.objs[chain[p]].data)

\* C19: metadata(k) of a NewMetadataField gives its override for every
\* key of its overrides and the wrapped field's value for every other
\* key, through chains the outermost override of a key and without one
\* the loaded field's value; to_numpy() gives the wrapped field's values;
\* and making or asking a wrapper leaves every object made before it as
\* it was.
C19_MetadataOverridePassThrough ==
    [][ /\ \A i \in 1..Len(fields.objs) :
              /\ i <= Len(fields'.objs)
              /\ fields'.objs[i] = fields.objs[i]
        /\ MetadataAnswered'
        /\ PayloadAnswered' ]_vars

\* a wrapper over a wrapper is asked for a key that both override with
\* different values, and the loaded field has another
C19_Witness ==
    /\ fields.last.call = "metadata"
    /\ LET outer == fields.objs[fields.last.obj]
       IN  /\ outer.cls = "NewMetadataField"
           /\ fields.objs[outer.field].cls = "NewMetadataField"
           /\ fields.last.key \in DOMAIN outer.metadata
           /\ fields.last.key \in DOMAIN fields.objs[outer.field].metadata
           /\ outer.metadata[fields.last.key]
                 # fields.objs[outer.field].metadata[fields.last.key]
           /\ fields.last.result = Return(outer.metadata[fields.last.key])
           /\ field_metadata(fields.objs, fields.objs[outer.field].field, fields.last.key)
                 \notin {Return(outer.metadata[fields.last.key]),
                         Return(fields.objs[outer.field].metadata[fields.last.key])}


(* ------------------------------------------------------------------ *)
(* C20                                                                 *)
(* ------------------------------------------------------------------ *)

\* the field that is to replace a gh field
ConvertedToZ(f) ==
    [f EXCEPT !.metadata = [k \in DOMAIN f.metadata |->
                               IF k = "param" THEN StrV("z") ELSE f.metadata[k]],
              !.data = [k \in 1..Len(f.data) |-> times_G(f.data[k])]]

TaggedGh(f) == f.metadata["param"].s = "gh"

\* how many times g is in the list
Occurrences(l, g) == Cardinality({k \in 1..Len(l) : l[k] = g})

\* C20: make_z_from_gh gives as many fields as it is given, none of them
\* tagged gh; each field given with param gh is there once as a field
\* tagged z with the values times 9.80665 and nothing else changed, and
\* each other field is there as it was given.
C20_MakeZFromGh ==
    fields.last.call = "make_z_from_gh" =>
        LET ds == fields.objs
            out == fields.out
            expected == [k \in 1..Len(ds) |->
                            IF TaggedGh(ds[k]) THEN ConvertedToZ(ds[k]) ELSE ds[k]]
        IN  /\ Len(out) = Len(ds)
            /\ \A k \in 1..Len(out) : ~TaggedGh(out[k])
            /\ \A k \in 1..Len(ds) :
                  Occurrences(out, expected[k]) = Occurrences(expected, expected[k])
            /\ \A k \in 1..Len(out) :
                  Occurrences(out, out[k]) = Occurrences(expected, out[k])

\* a gh field of values [1000.0] and a field of another param were
\* given: a z field of values [9806.65] and the other field came out
C20_Witness ==
    /\ fields.last.call = "make_z_from_gh"
    /\ \E k \in 1..Len(fields.objs) :
          /\ TaggedGh(fields.objs[k])
          /\ fields.objs[k].data = <<Num(1000)>>
          /\ \E j \in 1..Len(fields.out) :
                /\ fields.out[j].metadata["param"] = StrV("z")
                /\ fields.out[j].metadata["level"] = fields.objs[k].metadata["level"]
                /\ fields.out[j].data = <<1000 * G>>
    /\ \E k \in 1..Len(fields.objs) :
          /\ fields.objs[k].metadata["param"] = StrV("t")
          /\ \E j \in 1..Len(fields.out) : fields.out[j] = fields.objs[k]


(* ------------------------------------------------------------------ *)
(* C21                                                                 *)
(* ------------------------------------------------------------------ *)

\* a load of pressure levels or of model levels got as far as its check
LevelChecked ==
    /\ input.pc = "returned"
    /\ input.call \in {"pl_load_source", "ml_load_source"}
    /\ input.stages # <<>>

\* the fields that the check was given
CheckedFields ==
    LET ds == input.stages[Len(input.stages)].given
    IN  {ds.objs[ds.list[i]] : i \in 1..Len(ds.list)}

\* the pairs asked for and the pairs found
RequestedPairs ==
    { <<StrV(input.request.param[i]), IntV(input.request.levelist[j])>> :
         i \in 1..Len(input.request.param), j \in 1..Len(input.request.levelist) }

FoundPairs == { <<f.metadata["param"], f.metadata["levelist"]>> : f \in CheckedFields }

IsUnexpected ==
    /\ input.result.raised = "ValueError"
    /\ input.result.value.text = "Unexpected %s parameter from ECMWF open data"

IsNotAvailable ==
    /\ input.result.raised = "ValueError"
    /\ input.result.value.text = "The following %s parameter is not available in ECMWF open data"

\* C21 as it is claimed: the check passes iff the pairs found are the
\* pairs asked for; a pair asked for and not found raises; a pair found
\* and not asked for raises the error "Unexpected ... parameter".
C21_CheckExactProduct ==
    LevelChecked =>
        /\ (input.result.raised = "") <=> (FoundPairs = RequestedPairs)
        /\ RequestedPairs \ FoundPairs # {} => input.result.raised = "ValueError"
        /\ FoundPairs \ RequestedPairs # {} => IsUnexpected

\* C21, amended: the check passes iff the pairs found are the pairs
\* asked for; a pair asked for and not found raises; a pair found and
\* not asked for raises the error "Unexpected ... parameter" when no
\* pair asked for is absent.
C21_CheckExactProductMissingFirst ==
    LevelChecked =>
        /\ (input.result.raised = "") <=> (FoundPairs = RequestedPairs)
        /\ RequestedPairs \ FoundPairs # {} => input.result.raised = "ValueError"
        /\ (FoundPairs \ RequestedPairs # {} /\ RequestedPairs \subseteq FoundPairs) => IsUnexpected

\* t and u at 500 and 850 were asked for and came with v at 500: the
\* "Unexpected" error
C21_Witness ==
    /\ LevelChecked
    /\ Cardinality(RequestedPairs) = 4
    /\ RequestedPairs \subseteq FoundPairs
    /\ FoundPairs \ RequestedPairs = { <<StrV("v"), IntV(500)>> }
    /\ IsUnexpected


(* ------------------------------------------------------------------ *)
(* C22                                                                 *)
(* ------------------------------------------------------------------ *)

\* a load of pressure levels failed its check for pairs that are absent
PlMissing ==
    /\ LevelChecked
    /\ input.call = "pl_load_source"
    /\ RequestedPairs \ FoundPairs # {}

\* C22: the error for missing pressure-level combinations shows every
\* absent pair with its param and its level, in the form for one when
\* one pair is absent and in the form of a list otherwise.
C22_MissingPairsNamed ==
    PlMissing =>
        /\ IsNotAvailable
        /\ \A p \in RequestedPairs \ FoundPairs :
              \E v \in DOMAIN input.result.value.items : v = Shown(p)
        /\ (input.result.value.form = "one") <=> (Cardinality(RequestedPairs \ FoundPairs) = 1)

\* t and u at 500 and 850 asked for, only (t, 500) found: the message is
\* the list [None, None, None]
C22_NoneShown ==
    /\ PlMissing
    /\ RequestedPairs = { <<StrV(p), IntV(l)>> : p \in {"t", "u"}, l \in {500, 850} }
    /\ FoundPairs = { <<StrV("t"), IntV(500)>> }
    /\ input.result.value.form = "list"
    /\ DOMAIN input.result.value.items = {ShownNone}
    /\ input.result.value.items[ShownNone] = 3


(* ------------------------------------------------------------------ *)
(* C25                                                                 *)
(* ------------------------------------------------------------------ *)

\* sfc_load_source was called for a grid of RESOLS
SfcCalled ==
    /\ input.pc = "returned"
    /\ input.call = "sfc_load_source"
    /\ input.kwargs.grid \in DOMAIN RESOLS

\* the surface parameters asked for, and those of them that are constants
SfcRequested == set(input.kwargs.param)

SfcConstantsRequested == { p \in SfcRequested : lower(p) \in set(Constants) }

\* the fields that sfc_load_source returned, each as metadata(key) and
\* to_numpy() show it
SfcResult ==
    IF input.result.raised # "" THEN {}
    ELSE LET ds == input.result.value
         IN  { [param |-> field_metadata(ds.objs, ds.list[i], "param").value,
                date |-> field_metadata(ds.objs, ds.list[i], "date").value,
                time |-> field_metadata(ds.objs, ds.list[i], "time").value,
                step |-> field_metadata(ds.objs, ds.list[i], "step").value,
                data |-> to_numpy(ds.objs, ds.list[i])] : i \in 1..Len(ds.list) }

\* the open data gave the fields asked of them and no other
OpenDataGaveAsAsked ==
    /\ Len(input.sent) = 1
    /\ LET got == input.stages[1].given
       IN  {got.objs[got.list[i]].metadata["param"].s : i \in 1..Len(got.list)}
              = {lower(p) : p \in set(input.sent[1].param)}

\* C25: sfc_load_source asks the open data for no parameter of the
\* constants (z, sdor, slor); each of them that is requested comes from
\* the constants file of the request's resolution with the date, time
\* and step of the request; a warning names them; and when the open
\* data give what they are asked, the fields returned are those of
\* exactly the requested parameters and the check passes.
C25_ConstantsSubstituted ==
    SfcCalled =>
        /\ Len(input.sent) = 1
        /\ \A p \in set(input.sent[1].param) : p \notin set(Constants)
        /\ SfcConstantsRequested # {} =>
              /\ \E k \in 1..Len(input.log) :
                    /\ input.log[k].level = "warning"
                    /\ set(input.log[k].params) = {lower(p) : p \in SfcConstantsRequested}
              /\ \A k \in 1..Len(input.downloads) :
                    input.downloads[k] = constants_url(RESOLS[input.kwargs.grid].resol)
        /\ OpenDataGaveAsAsked =>
              /\ input.result.raised = ""
              /\ {f.param : f \in SfcResult} = {StrV(p) : p \in SfcRequested}
              /\ \A p \in SfcConstantsRequested :
                    \E f \in SfcResult, k \in 1..Len(ConstantsFile) :
                       /\ f.param = StrV(p)
                       /\ ConstantsFile[k].metadata["param"] = StrV(p)
                       /\ f.data = ConstantsFile[k].data
                       /\ f.date = IntV(input.kwargs.date)
                       /\ f.time = IntV(input.kwargs.time)
                       /\ f.step = IntV(Get(input.kwargs, "step", 0))

\* the claim for the grid that needs no interpolation and for names in
\* lower case
C25_ConstantsSubstitutedOnSourceGrid ==
    (/\ SfcCalled
     /\ ~RESOLS[input.kwargs.grid].interp
     /\ \A p \in SfcRequested : lower(p) = p) => C25_ConstantsSubstituted

\* 2t and z asked for on the grid 0.1: TypeError, nothing asked of the
\* open data and no constants
C25_InterpolateRaises ==
    /\ SfcCalled
    /\ input.kwargs.grid = <<"0.1", "0.1">>
    /\ "z" \in SfcRequested
    /\ input.result.raised = "TypeError"
    /\ input.sent = <<>>
    /\ \A k \in 1..Len(input.log) : input.log[k].params = <<>>

\* sdor, slor and z came from the constants file with the date, time and
\* step of the request, lsm and 2t from the open data
C25_ConstantsSupplied ==
    /\ SfcCalled
    /\ OpenDataGaveAsAsked
    /\ SfcConstantsRequested = {"z", "sdor", "slor"}
    /\ HasKey(input.kwargs, "step")
    /\ input.kwargs.step = 6
    /\ input.result.raised = ""
    /\ input.downloads = <<"constants-0p25.grib2">>
    /\ \A c \in SfcConstantsRequested :
          \E f \in SfcResult : f.param = StrV(c) /\ f.step = IntV(6) /\ f.date = IntV(20240101)


(* ------------------------------------------------------------------ *)
(* C27                                                                 *)
(* ------------------------------------------------------------------ *)

StageNames == [k \in 1..Len(input.stages) |-> input.stages[k].stage]

Ran(name) == \E k \in 1..Len(input.stages) : input.stages[k].stage = name

\* every run of the stage a came before every run of the stage b
RanBefore(a, b) ==
    \A i, j \in 1..Len(input.stages) :
        (input.stages[i].stage = a /\ input.stages[j].stage = b) => i < j

\* the fields of a list, in their order
FieldsIn(ds) == [k \in 1..Len(ds.list) |-> ds.objs[ds.list[k]]]

\* C27: in every load whose stages run, recentering runs before
\* interpolation, the conversion of gh to z of the pressure levels after
\* recentering and before interpolation, interpolation before the
\* relabeling of the surface fields, and the check last; each stage is
\* given all that the stage before it gave (with the constants added for
\* the surface fields), and the check is given what the load returns.
C27_StagesInOrder ==
    (input.pc = "returned" /\ input.stages # <<>>) =>
        /\ Ran("recenter") /\ Ran("interpolate")
        /\ RanBefore("recenter", "interpolate")
        /\ input.call = "pl_load_source" =>
              /\ Ran("gh_to_z")
              /\ RanBefore("recenter", "gh_to_z")
              /\ RanBefore("gh_to_z", "interpolate")
        /\ input.call = "sfc_load_source" =>
              /\ Ran("relabel")
              /\ RanBefore("interpolate", "relabel")
        /\ \A k \in 1..Len(input.stages) :
              (input.stages[k].stage = "check") <=> (k = Len(input.stages))
        /\ \A k \in 2..Len(input.stages) :
              LET before == FieldsIn(input.stages[k - 1].gave)
                  given == FieldsIn(input.stages[k].given)
              IN  /\ Len(given) >= Len(before)
                  /\ SubSeq(given, 1, Len(before)) = before
                  /\ input.call # "sfc_load_source" => given = before
        /\ input.stages[Len(input.stages)].given = input.stages[Len(input.stages) - 1].gave
        /\ input.result.raised = "" =>
              input.result.value = input.stages[Len(input.stages)].given

\* t and z at two levels loaded: recenter, make_z_from_gh, interpolate
\* and the check, which passes on the fields t and z
C27_Witness ==
    /\ input.pc = "returned"
    /\ input.call = "pl_load_source"
    /\ StageNames = <<"recenter", "gh_to_z", "interpolate", "check">>
    /\ input.stages[2].fn = "make_z_from_gh"
    /\ input.stages[2].given # input.stages[2].gave
    /\ input.result.raised = ""
    /\ Len(input.result.value.list) = 4


(* ------------------------------------------------------------------ *)
(* C23                                                                 *)
(* ------------------------------------------------------------------ *)

HindcastWritten == output.pc = "returned" /\ output.call = "HindcastReLabel.write"

\* the reference date given, else the reference year with the month and
\* day of the template's date
ComputedReferenceDate ==
    IF output.hindcast_reference_date # {}
    THEN CHOOSE d \in output.hindcast_reference_date : TRUE
    ELSE (CHOOSE y \in output.hindcast_reference_year : TRUE) * 10000
            + (output.kwargs.template.date % 10000)

\* C23: for a template with an hdate, HindcastReLabel.write hands the
\* field on only when the template's date is the computed reference
\* date, with that referenceDate and the template's hdate, and raises
\* with nothing handed on otherwise; for a template without hdate it
\* hands the field on with hdate the template's date and referenceDate
\* the computed one.
C23_HindcastRelabel ==
    HindcastWritten =>
        LET template == output.kwargs.template
        IN  /\ template.hdate # {} =>
                 /\ (output.encoded # <<>>) <=> (template.date = ComputedReferenceDate)
                 /\ template.date # ComputedReferenceDate =>
                       output.result.raised = "AssertionError"
                 /\ output.encoded # <<>> =>
                       /\ output.encoded[1].kwargs.referenceDate = ComputedReferenceDate
                       /\ {output.encoded[1].kwargs.hdate} = template.hdate
            /\ template.hdate = {} =>
                 /\ Len(output.encoded) = 1
                 /\ output.encoded[1].kwargs.hdate = template.date
                 /\ output.encoded[1].kwargs.referenceDate = ComputedReferenceDate

\* a hindcast of 2020-01-15 relabelled for the year 2024: the template
\* of date 20240115 and hdate 20200115 is written with them
C23_Witness ==
    /\ HindcastWritten
    /\ output.hindcast_reference_date = {}
    /\ output.hindcast_reference_year = {2024}
    /\ output.kwargs.template = [date |-> 20240115, hdate |-> {20200115}]
    /\ output.result.raised = ""
    /\ output.encoded[1].kwargs.referenceDate = 20240115
    /\ output.encoded[1].kwargs.hdate = 20200115


(* ------------------------------------------------------------------ *)
(* C24                                                                 *)
(* ------------------------------------------------------------------ *)

\* FileOutputBase.write was called, itself or by HindcastReLabel.write,
\* with data that hold a NaN or an infinite value
WroteNaNOrInf ==
    /\ output.pc = "returned"
    /\ output.encoded # <<>>
    /\ ~output.data.none
    /\ isnan_any(output.data) \/ isinf_any(output.data)

\* C24 as it is claimed: FileOutputBase.write never returns for data
\* that hold a NaN or an infinite value, whether the encoder takes them
\* or not.
C24_NaNAlwaysFatal == WroteNaNOrInf => output.result.raised # ""

\* C24, amended: when the encoder raises on data that hold a NaN or an
\* infinite value, FileOutputBase.write raises ValueError, for the NaN
\* if there is one and else for the infinite value, and does not return.
C24_NaNFatalWhenEncoderRaises ==
    (WroteNaNOrInf /\ ~output.accepts) =>
        /\ output.result.raised = "ValueError"
        /\ output.result.value = IF isnan_any(output.data)
                                 THEN "NaN values found in field."
                                 ELSE "Infinite values found in field."

\* the encoder raised on a field with a NaN and an infinite value: the
\* ValueError is the one for NaN
C24_Witness ==
    /\ WroteNaNOrInf
    /\ ~output.accepts
    /\ isnan_any(output.data) /\ isinf_any(output.data)
    /\ output.call = "FileOutputBase.write"
    /\ output.result = RaisedWith("ValueError", "NaN values found in field.")

\* the encoder took a field with a NaN: the handle and the path are
\* returned
C24_NaNWritten ==
    /\ WroteNaNOrInf
    /\ output.accepts
    /\ output.call = "FileOutputBase.write"
    /\ isnan_any(output.data)
    /\ output.result.raised = ""
    /\ output.result.value.path = "output.grib"


(* ------------------------------------------------------------------ *)
(* C26                                                                 *)
(* ------------------------------------------------------------------ *)

\* the run is over, and its base time was not one of 0, 600, 1200 and
\* 1800 after normalization
RanWithInvalidTime ==
    /\ model.pc = "done"
    /\ ~valid_time(normalize_time(model.cfg.time))

\* C26 as it is claimed: with an invalid base time the run fails before
\* anything is asked of the network or done to a file.
C26_InvalidTimeFailsFast ==
    RanWithInvalidTime =>
        /\ model.raised \notin {"", "SystemExit"}
        /\ \A k \in 1..Len(model.events) : ~IsIO(model.events[k])

\* the run comes to its date-times: the model is run or its requests are
\* printed, the input retrieves by request, the model has fields to
\* retrieve, no staging dates are given, and the server has the model
ComesToDatetimes ==
    /\ ~model.cfg.fields
    /\ model.cfg.retrieve_requests \/ (~model.cfg.assets_list /\ model.cfg.input # "file"
                                       /\ model.cfg.param_sfc # <<>>)
    /\ model.cfg.staging_dates = {}
    /\ model.cfg.remote_execution =>
          \E k \in 1..Len(model.events) : model.events[k] = "POST metadata"

\* C26, amended: with an invalid base time a run that comes to its
\* date-times fails there with AssertionError, before any retrieval of
\* fields, any upload and any output; the assets are downloaded before
\* that in local mode, and the models and the metadata are asked for
\* before that in remote mode.
C26_InvalidTimeFailsAtDatetimes ==
    (RanWithInvalidTime /\ ComesToDatetimes) =>
        /\ model.raised = "AssertionError"
        /\ \A k \in 1..Len(model.events) :
              model.events[k] \in {"makedirs assets", "download asset", "rename asset",
                                   "read api.yaml", "GET models", "POST metadata", "mkdtemp"}
        /\ model.cfg.remote_execution =>
              \E k \in 1..Len(model.events) : model.events[k] = "GET models"

\* --time 700 in remote mode: the models and the metadata were asked
\* for, then AssertionError, and nothing was uploaded
C26_Witness ==
    /\ RanWithInvalidTime
    /\ ComesToDatetimes
    /\ model.cfg.time = 700
    /\ model.cfg.remote_execution
    /\ ~model.cfg.retrieve_requests
    /\ model.events = <<"read api.yaml", "GET models", "POST metadata", "mkdtemp">>
    /\ model.raised = "AssertionError"

(* ------------------------------------------------------------------ *)
(* The end of the polling loop                                         *)
(* ------------------------------------------------------------------ *)

\* what _request makes of the last response received
Decoded(r) == request(LastUrl(r), r.response)

\* the last response is a job status that is neither ready nor failed
NonTerminalStatus(r) ==
    /\ ~Decoded(r).exit
    /\ Decoded(r).kind = "dict"
    /\ HasKey(Decoded(r).dict, "status")
    /\ Decoded(r).dict["status"] \notin {"ready", "failed"}

\* ... and it carries the href of the next poll
WellFormedNonTerminal(r) == NonTerminalStatus(r) /\ HasKey(Decoded(r).dict, "href")

\* the polls made so far (the only GETs of a run)
Polls(r) == Cardinality({i \in 1..Len(r.reqs) : r.reqs[i].method = "GET"})

ResponseHref(response) ==
    IF response.kind = "dict" /\ HasKey(response.dict, "href")
    THEN {response.dict["href"]} ELSE {}

\* C29: a request sent after the upload (the submit, sent from "uploaded",
\* and every poll) goes to the href of the response received just before
\* it, joined to the client's url: the submit is a POST to the href of the
\* upload's response, a poll is a GET to the href of the submit's response
\* or of the poll before; when that response carries no href, nothing is
\* requested and the run ends.
C29_HrefChaining ==
    [][ run.pc \in {"uploaded", "poll"} /\ run' # run
        => /\ ( Sent(run, run')
                 => /\ ResponseHref(run.response) # {}
                    /\ \A href \in ResponseHref(run.response) :
                          run'.reqs[Len(run'.reqs)]
                            = [method |-> IF run.pc = "uploaded" THEN "POST" ELSE "GET",
                               url |-> JoinedToBase(run, href)] )
           /\ ( ~Sent(run, run')
                 => /\ ResponseHref(run.response) = {}
                    /\ run'.reqs = run.reqs
                    /\ run'.pc = "raise" )
           /\ \A i \in 1..Len(run.reqs) : run'.reqs[i] = run.reqs[i]
      ]_vars

\* C29 witness: the upload, the submit and three polls, where the hrefs
\* of consecutive responses differed, so that each request went
\* somewhere else than the one before it
C29_Witness ==
    /\ Len(run.reqs) = 5
    /\ run.reqs[2] = [method |-> "POST", url |-> [origin |-> API_URL, path |-> "status/a"]]
    /\ run.reqs[3] = [method |-> "GET", url |-> AbsHref("https://store.example/", "result/b")]
    /\ run.reqs[4] = [method |-> "GET", url |-> [origin |-> API_URL, path |-> "status/a"]]
    /\ run.reqs[5] = [method |-> "GET", url |-> AbsHref("https://store.example/", "result/b")]

(* ------------------------------------------------------------------ *)
(* A rejected add                                                      *)
(* ------------------------------------------------------------------ *)

\* the collector of a path (a new one if the path has none yet)
CollectorOf(m, path) ==
    IF HasPath(m.archiving, path) THEN m.archiving[Index(m.archiving, path)].archive
    ELSE NewCollector

\* the add calls begun on a path: the writes to it, the last one included
\* when its add raised
AddsBegun(m, path) ==
    Cardinality({i \in 1..Len(m.written) : m.written[i].path = path})

\* the place of key k among the items of a field
ItemOf(field, k) == CHOOSE i \in 1..Len(field) : field[i][1] = k

\* C30: with archive requests collected, the expect of every path is the
\* number of add calls begun on it, whether or not the last one raised.
\* A write whose add raised for key k leaves the collector of its path
\* changed: expect is one more than before, the value sets of k and of
\* the keys that the field gives before k hold the field's values on top
\* of what they held (k's set has now several values), and the value
\* sets of the keys after k are as they were.
C30_AddNotRolledBack ==
    [][ model.pc = "running" /\ model.archive_requests
          /\ Len(model'.written) = Len(model.written) + 1
        => LET last   == model'.written[Len(model'.written)]
               before == CollectorOf(model, last.path)
               after  == CollectorOf(model', last.path)
           IN  /\ \A i \in 1..Len(model'.archiving) :
                     model'.archiving[i].archive.expect
                       = AddsBegun(model', model'.archiving[i].path)
               /\ after.expect = before.expect + 1
               /\ model'.pc = "raised"
                    => LET k == model'.error.key
                           n == ItemOf(last.field, k)
                       IN  /\ k \in UNIQUE
                           /\ after # before
                           /\ Cardinality(after.request[k]) > 1
                           /\ \A i \in 1..n :
                                 after.request[last.field[i][1]]
                                   = Get(before.request, last.field[i][1], {})
                                       \cup {str(last.field[i][2])}
                           /\ \A i \in (n + 1)..Len(last.field) :
                                 Get(after.request, last.field[i][1], {})
                                   = Get(before.request, last.field[i][1], {})
      ]_vars

\* C30 witness: the second field written to a path gave a param and a
\* time before a date that differs from the date recorded: the add
\* raised, and the collector counts two fields and holds both dates, the
\* new param and the time
C30_Witness ==
    /\ model.pc = "raised"
    /\ model.error.key = "date"
    /\ Len(model.written) = 2
    /\ LET c == CollectorOf(model, model.written[2].path)
       IN  /\ c.expect = 2
           /\ c.request["date"] = {"20230101", "20230102"}
           /\ c.request["param"] = {"2t", "z"}
           /\ c.request["time"] = {"1200"}

====
